---- MODULE Spec2Model ----
(***************************************************************************)
(* A model of browser-indexeddb: the QueryEngine (matches, matchesCondition,*)
(* isEqual, filter), the update engine of Collection (applyUpdate), its     *)
(* sort, the Collection operations over the IndexedDB Storage adapter with  *)
(* one caller and with two overlapping callers, and the BrowserDB instance  *)
(* (connect, close, collection, dropCollection).                            *)
(*                                                                          *)
(* JavaScript values are tagged records:                                    *)
(*   undefined  [undef |-> TRUE]        null     [null |-> TRUE]            *)
(*   number     [num |-> n]             string   [str |-> s]                *)
(*   boolean    [bool |-> b]            RegExp   [regex |-> source]         *)
(*   array      [arr |-> <<v1, ...>>, ref |-> r]                            *)
(*   object     [obj |-> [key |-> v],  ref |-> r]                           *)
(* ref is the identity of an array or object as far as === can see it: 0 is *)
(* an object produced by a structured clone (what the store hands out), so  *)
(* it is identical to no object a caller holds; a caller's object has a     *)
(* ref >= 1, and two caller objects are the same object iff they are equal  *)
(* as records.  A document is a function from its field names to values.    *)
(***************************************************************************)
EXTENDS Integers, Sequences, FiniteSets, TLC

\* ---------------------------------------------------------------- bounds
\* longest array of a generated document or operand
MaxArrLen == 2
\* largest number stored in a generated document
MaxNum == 2

\* ---------------------------------------------------------------- values
Undefined == [undef |-> TRUE]
Null == [null |-> TRUE]
Num(n) == [num |-> n]
Str(s) == [str |-> s]
Bool(b) == [bool |-> b]
RegExpOf(src) == [regex |-> src]
Arr(es, r) == [arr |-> es, ref |-> r]
Obj(f, r) == [obj |-> f, ref |-> r]

IsUndefined(v) == "undef" \in DOMAIN v
IsNull(v) == "null" \in DOMAIN v
IsNum(v) == "num" \in DOMAIN v
IsStr(v) == "str" \in DOMAIN v
IsBool(v) == "bool" \in DOMAIN v
IsRegExp(v) == "regex" \in DOMAIN v
IsArr(v) == "arr" \in DOMAIN v
IsObj(v) == "obj" \in DOMAIN v
\* a value with an identity: an array, a plain object or a RegExp
IsRef(v) == IsArr(v) \/ IsObj(v) \/ IsRegExp(v)

\* typeof v
TypeOf(v) ==
  IF IsUndefined(v) THEN "undefined"
  ELSE IF IsNum(v) THEN "number"
  ELSE IF IsStr(v) THEN "string"
  ELSE IF IsBool(v) THEN "boolean"
  ELSE "object"

\* a === b (Array.prototype.includes compares the same way on these values)
StrictEq(a, b) ==
  IF IsArr(a) \/ IsObj(a) \/ IsArr(b) \/ IsObj(b)
  THEN a = b /\ a.ref # 0
  ELSE a = b

\* the truthiness of v in a condition
Truthy(v) ==
  IF IsUndefined(v) \/ IsNull(v) THEN FALSE
  ELSE IF IsNum(v) THEN v.num # 0
  ELSE IF IsStr(v) THEN v.str # ""
  ELSE IF IsBool(v) THEN v.bool
  ELSE TRUE

\* the property name of array index i-1
IndexKeys == <<"0", "1", "2", "3", "4">>

\* Object.keys(v) of an object-typed value
Keys(v) ==
  IF IsArr(v) THEN {IndexKeys[i] : i \in 1..Len(v.arr)}
  ELSE IF IsObj(v) THEN DOMAIN v.obj
  ELSE {}

\* v[k] of an object-typed value
GetProp(v, k) ==
  IF IsArr(v)
  THEN IF \E i \in 1..Len(v.arr) : IndexKeys[i] = k
       THEN v.arr[CHOOSE i \in 1..Len(v.arr) : IndexKeys[i] = k]
       ELSE Undefined
  ELSE IF IsObj(v) /\ k \in DOMAIN v.obj THEN v.obj[k]
  ELSE Undefined

\* the characters of the strings the model uses (String.prototype indexing)
Chars(s) ==
  CASE s = "" -> <<>>
    [] s = "x" -> <<"x">>
    [] s = "y" -> <<"y">>
    [] s = "xy" -> <<"x", "y">>
    [] s = "yx" -> <<"y", "x">>
    [] s = "a" -> <<"a">>
    [] s = "b" -> <<"b">>
    [] s = "c" -> <<"c">>
    [] s = "g1" -> <<"g", "1">>
    [] s = "g2" -> <<"g", "2">>
    [] s = "g3" -> <<"g", "3">>
    [] s = "g4" -> <<"g", "4">>

\* the code-unit order of the characters the model uses
CharRank(c) ==
  CASE c = "1" -> 1 [] c = "2" -> 2 [] c = "3" -> 3 [] c = "4" -> 4
    [] c = "a" -> 11 [] c = "b" -> 12 [] c = "c" -> 13 [] c = "g" -> 17
    [] c = "x" -> 34 [] c = "y" -> 35

RECURSIVE SeqLess(_, _)
\* the lexicographic order of two character sequences
SeqLess(s, t) ==
  IF t = <<>> THEN FALSE
  ELSE IF s = <<>> THEN TRUE
  ELSE IF CharRank(Head(s)) # CharRank(Head(t))
       THEN CharRank(Head(s)) < CharRank(Head(t))
       ELSE SeqLess(Tail(s), Tail(t))

\* s < t on strings
StrLess(s, t) == SeqLess(Chars(s), Chars(t))

\* a < b: numbers by value, strings by code units; a string of the model is
\* not numeric, so against a number it converts to NaN and nothing holds;
\* undefined converts to NaN; null converts to 0
JsLess(a, b) ==
  IF IsNum(a) /\ IsNum(b) THEN a.num < b.num
  ELSE IF IsStr(a) /\ IsStr(b) THEN StrLess(a.str, b.str)
  ELSE IF IsNull(a) /\ IsNum(b) THEN 0 < b.num
  ELSE IF IsNum(a) /\ IsNull(b) THEN a.num < 0
  ELSE FALSE

\* a <= b: the same conversions, so NaN makes it false
JsLessEq(a, b) ==
  IF IsNum(a) /\ IsNum(b) THEN a.num <= b.num
  ELSE IF IsStr(a) /\ IsStr(b) THEN a.str = b.str \/ StrLess(a.str, b.str)
  ELSE IF IsNull(a) /\ IsNum(b) THEN 0 <= b.num
  ELSE IF IsNum(a) /\ IsNull(b) THEN a.num <= 0
  ELSE IF IsNull(a) /\ IsNull(b) THEN TRUE
  ELSE FALSE

\* s.startsWith(p)
StartsWith(s, p) ==
  /\ Len(Chars(p)) <= Len(Chars(s))
  /\ SubSeq(Chars(s), 1, Len(Chars(p))) = Chars(p)

\* s.endsWith(p)
EndsWith(s, p) ==
  /\ Len(Chars(p)) <= Len(Chars(s))
  /\ SubSeq(Chars(s), Len(Chars(s)) - Len(Chars(p)) + 1, Len(Chars(s))) = Chars(p)

\* new RegExp(p).test(s) for a pattern without metacharacters: p occurs in s
RegexTest(p, s) ==
  \E i \in 0..(Len(Chars(s)) - Len(Chars(p))) :
    SubSeq(Chars(s), i + 1, i + Len(Chars(p))) = Chars(p)

\* ------------------------------------------------------------ utils
\* deepClone, and equally IndexedDB's structured clone on write and on read:
\* the same structure made of new objects
RECURSIVE deepClone(_)
deepClone(v) ==
  IF IsArr(v) THEN Arr([i \in 1..Len(v.arr) |-> deepClone(v.arr[i])], 0)
  ELSE IF IsObj(v) THEN Obj([k \in DOMAIN v.obj |-> deepClone(v.obj[k])], 0)
  ELSE v

\* deepClone of a document
CloneDoc(d) == [k \in DOMAIN d |-> deepClone(d[k])]

\* path.split('.') for the keys the model uses
SplitPath(path) ==
  CASE path = "tags.0" -> <<"tags", "0">>
    [] path = "tags.1" -> <<"tags", "1">>
    [] OTHER -> <<path>>

RECURSIVE NestedFrom(_, _)
\* the loop of getNestedValue from `current` over the remaining keys
NestedFrom(current, keys) ==
  IF keys = <<>> THEN current
  ELSE IF IsNull(current) \/ IsUndefined(current) THEN Undefined
  ELSE IF TypeOf(current) = "object"
       THEN NestedFrom(GetProp(current, Head(keys)), Tail(keys))
       ELSE Undefined

\* getNestedValue(doc, path)
getNestedValue(doc, path) == NestedFrom(Obj(doc, 0), SplitPath(path))

\* ------------------------------------------------------- QueryEngine
\* the keys of the model's universe that start with '$'
StartsWithDollar(key) ==
  key \in {"$and", "$or", "$not",
           "$eq", "$ne", "$gt", "$gte", "$lt", "$lte", "$in", "$nin", "$regex",
           "$exists", "$startsWith", "$endsWith", "$contains",
           "$set", "$unset", "$inc", "$push", "$pull", "$addToSet"}

RECURSIVE isEqual(_, _)
\* QueryEngine.isEqual
isEqual(a, b) ==
  IF StrictEq(a, b) THEN TRUE
  ELSE IF IsNull(a) \/ IsNull(b) THEN FALSE
  ELSE IF TypeOf(a) # TypeOf(b) THEN FALSE
  ELSE IF IsArr(a) /\ IsArr(b)
       THEN /\ Len(a.arr) = Len(b.arr)
            /\ \A i \in 1..Len(a.arr) : isEqual(a.arr[i], b.arr[i])
  ELSE IF TypeOf(a) = "object" /\ TypeOf(b) = "object"
       THEN /\ Cardinality(Keys(a)) = Cardinality(Keys(b))
            /\ \A key \in Keys(a) : isEqual(GetProp(a, key), GetProp(b, key))
  ELSE FALSE

\* one operator of matchesCondition: TRUE when the operator is absent from
\* the condition or holds of the value
OpHolds(op, value, operators) ==
  LET arg == GetProp(operators, op) IN
  IF op \notin Keys(operators) THEN TRUE
  ELSE CASE op = "$eq" -> isEqual(value, arg)
    [] op = "$ne" -> ~isEqual(value, arg)
    [] op = "$gt" -> ~(IsUndefined(value) \/ IsNull(value)) /\ JsLess(arg, value)
    [] op = "$gte" -> ~(IsUndefined(value) \/ IsNull(value)) /\ JsLessEq(arg, value)
    [] op = "$lt" -> ~(IsUndefined(value) \/ IsNull(value)) /\ JsLess(value, arg)
    [] op = "$lte" -> ~(IsUndefined(value) \/ IsNull(value)) /\ JsLessEq(value, arg)
    [] op = "$in" ->
         Truthy(arg) => \E i \in 1..Len(arg.arr) : isEqual(value, arg.arr[i])
    [] op = "$nin" ->
         Truthy(arg) => ~\E i \in 1..Len(arg.arr) : isEqual(value, arg.arr[i])
    [] op = "$regex" ->
         IsStr(value) /\ RegexTest(IF IsRegExp(arg) THEN arg.regex ELSE arg.str, value.str)
    [] op = "$exists" -> arg = Bool(~IsUndefined(value))
    [] op = "$startsWith" -> IsStr(value) /\ StartsWith(value.str, arg.str)
    [] op = "$endsWith" -> IsStr(value) /\ EndsWith(value.str, arg.str)
    [] op = "$contains" ->
         IsArr(value) /\ \E i \in 1..Len(value.arr) : isEqual(value.arr[i], arg)

\* the operators matchesCondition knows
ComparisonOps ==
  {"$eq", "$ne", "$gt", "$gte", "$lt", "$lte", "$in", "$nin", "$regex",
   "$exists", "$startsWith", "$endsWith", "$contains"}

\* every condition compared as a literal
LiteralOnly(value, condition) == isEqual(value, condition)

\* QueryEngine.matchesCondition
matchesCondition(value, condition) ==
  IF IsNull(condition) \/ TypeOf(condition) # "object" \/ IsRegExp(condition)
  THEN isEqual(value, condition)
  ELSE \A op \in ComparisonOps : OpHolds(op, value, condition)

\* the field loop of matches: every key that does not start with '$'
FieldsMatch(doc, query) ==
  \A key \in DOMAIN query :
    StartsWithDollar(key) \/ matchesCondition(getNestedValue(doc, key), query[key])

\* a match that looks at the field predicates only
FieldsOnly(doc, query) == FieldsMatch(doc, query)

RECURSIVE matches(_, _)
\* QueryEngine.matches; a query is a function from its keys: "$and" and "$or"
\* to a sequence of queries, "$not" to a query, a field path to a condition
matches(doc, query) ==
  IF "$and" \in DOMAIN query
  THEN \A i \in 1..Len(query["$and"]) : matches(doc, query["$and"][i])
  ELSE IF "$or" \in DOMAIN query
  THEN \E i \in 1..Len(query["$or"]) : matches(doc, query["$or"][i])
  ELSE IF "$not" \in DOMAIN query
  THEN ~matches(doc, query["$not"])
  ELSE FieldsMatch(doc, query)

\* a call that passes no query
NoQuery == [absent |-> TRUE]

\* a filter that returns what it is given
EveryDocument(docs, query) == docs

\* QueryEngine.filter
filter(docs, query) ==
  IF query = NoQuery \/ DOMAIN query = {} THEN docs
  ELSE SelectSeq(docs, LAMBDA d : matches(d, query))

\* ------------------------------------------- Collection.applyUpdate
\* doc[k], undefined when the document has no such field
Field(doc, k) == IF k \in DOMAIN doc THEN doc[k] ELSE Undefined

\* an operator's mapping in the update description, empty when absent
OpArgs(update, op) == IF op \in DOMAIN update THEN update[op] ELSE <<>>

\* A run of applyUpdate is followed as a record: result is the working copy,
\* input is the document the caller passed, and shared holds the fields whose
\* value is still the very object the input holds ({...doc} copies the
\* fields, not the values they refer to).
\* const result = { ...doc }
SpreadCopy(doc) == [result |-> doc, input |-> doc, shared |-> DOMAIN doc]

\* Object.assign(result, src)
AssignFields(st, src) ==
  [result |-> [k \in DOMAIN st.result \cup DOMAIN src |->
                 IF k \in DOMAIN src THEN src[k] ELSE st.result[k]],
   input |-> st.input,
   shared |-> st.shared \ DOMAIN src]

\* $unset: delete result[key] for every key of src
UnsetFields(st, src) ==
  [result |-> [k \in DOMAIN st.result \ DOMAIN src |-> st.result[k]],
   input |-> st.input,
   shared |-> st.shared \ DOMAIN src]

\* $inc: add to the fields that hold a number, when the operand is a number
IncFields(st, src) ==
  [st EXCEPT !.result =
     [k \in DOMAIN st.result |->
        IF k \in DOMAIN src /\ IsNum(st.result[k]) /\ IsNum(src[k])
        THEN Num(st.result[k].num + src[k].num)
        ELSE st.result[k]]]

\* current.push(value) on the fields of `keys`: the array object itself grows,
\* and with it the input's field while that is the same object
PushInPlace(st, src, keys) ==
  LET grown(k) == [st.result[k] EXCEPT !.arr = Append(@, src[k])] IN
  [result |-> [k \in DOMAIN st.result |-> IF k \in keys THEN grown(k) ELSE st.result[k]],
   input |-> [k \in DOMAIN st.input |->
                IF k \in keys /\ k \in st.shared THEN grown(k) ELSE st.input[k]],
   shared |-> st.shared]

\* $push: on every field of src that holds an array
PushFields(st, src) ==
  PushInPlace(st, src, {k \in DOMAIN src \cap DOMAIN st.result : IsArr(st.result[k])})

\* current.filter((v) => v !== value)
PullFilter(elems, value) == SelectSeq(elems, LAMBDA v : ~StrictEq(v, value))

\* $pull: every field of src that holds an array gets a new, filtered array
PullFields(st, src) ==
  LET keys == {k \in DOMAIN src \cap DOMAIN st.result : IsArr(st.result[k])} IN
  [result |-> [k \in DOMAIN st.result |->
                 IF k \in keys THEN Arr(PullFilter(st.result[k].arr, src[k]), 0)
                 ELSE st.result[k]],
   input |-> st.input,
   shared |-> st.shared \ keys]

\* current.includes(value)
Includes(elems, value) == \E i \in 1..Len(elems) : StrictEq(elems[i], value)

\* $addToSet: push on every field of src that holds an array without the value
AddToSetFields(st, src) ==
  PushInPlace(st, src, {k \in DOMAIN src \cap DOMAIN st.result :
                          IsArr(st.result[k]) /\ ~Includes(st.result[k].arr, src[k])})

\* a test that asks every key to start with '$'
OnlyOperators(update) == \A key \in DOMAIN update : StartsWithDollar(key)

\* Object.keys(update).some((key) => key.startsWith('$'))
hasOperators(update) == \E key \in DOMAIN update : StartsWithDollar(key)

\* a run that deletes the $unset fields before it assigns the $set fields
UnsetBeforeSet(doc, update) ==
  IF ~hasOperators(update)
  THEN AssignFields(SpreadCopy(doc), update)
  ELSE AddToSetFields(
         PullFields(
           PushFields(
             IncFields(
               AssignFields(
                 UnsetFields(SpreadCopy(doc), OpArgs(update, "$unset")),
                 OpArgs(update, "$set")),
               OpArgs(update, "$inc")),
             OpArgs(update, "$push")),
           OpArgs(update, "$pull")),
         OpArgs(update, "$addToSet"))

\* the whole run of applyUpdate(doc, update); an update description is a
\* function from its keys: a field name to a value, an operator to a mapping
\* from field names to operands
ApplyRun(doc, update) ==
  IF ~hasOperators(update)
  THEN AssignFields(SpreadCopy(doc), update)
  ELSE AddToSetFields(
         PullFields(
           PushFields(
             IncFields(
               UnsetFields(
                 AssignFields(SpreadCopy(doc), OpArgs(update, "$set")),
                 OpArgs(update, "$unset")),
               OpArgs(update, "$inc")),
             OpArgs(update, "$push")),
           OpArgs(update, "$pull")),
         OpArgs(update, "$addToSet"))

\* Collection.applyUpdate: the document it returns
applyUpdate(doc, update) == ApplyRun(doc, update).result

\* the caller's document as it is after applyUpdate(doc, update) returned
InputAfterUpdate(doc, update) == ApplyRun(doc, update).input

\* ----------------------------------------- Collection.sortDocuments
\* A sort specification is the sequence of its entries <<key, order>>, in the
\* order Object.entries yields them.
\* the comparator sortDocuments hands to Array.prototype.sort
RECURSIVE SortCompare(_, _, _)
SortCompare(a, b, sortEntries) ==
  IF sortEntries = <<>> THEN 0
  ELSE LET key == Head(sortEntries)[1]
           order == Head(sortEntries)[2]
           direction == IF order = Num(-1) \/ order = Str("desc") THEN -1 ELSE 1
       IN IF JsLess(Field(a, key), Field(b, key)) THEN -1 * direction
          ELSE IF JsLess(Field(b, key), Field(a, key)) THEN 1 * direction
          ELSE SortCompare(a, b, Tail(sortEntries))

\* Array.prototype.sort on fewer than 64 elements, as V8 runs it: the first
\* run is found (and reversed when strictly descending), and the elements
\* after it are placed by binary insertion.  With a consistent comparator
\* this is the stable sort every engine yields.
RECURSIVE RunLength(_, _, _, _)
\* the length of the run that starts at 1, counted from its first idx-1 elements
RunLength(arr, idx, isDescending, sortEntries) ==
  IF idx > Len(arr) THEN idx - 1
  ELSE LET order == SortCompare(arr[idx], arr[idx - 1], sortEntries) IN
       IF (isDescending /\ order >= 0) \/ (~isDescending /\ order < 0) THEN idx - 1
       ELSE RunLength(arr, idx + 1, isDescending, sortEntries)

\* the sequence reversed
Reverse(seq) == [i \in 1..Len(seq) |-> seq[Len(seq) + 1 - i]]

\* CountAndMakeRun: the array with its first run ascending, and the run's length
MakeRun(arr, sortEntries) ==
  LET isDescending == SortCompare(arr[2], arr[1], sortEntries) < 0
      n == RunLength(arr, 3, isDescending, sortEntries)
  IN [arr |-> IF isDescending
              THEN Reverse(SubSeq(arr, 1, n)) \o SubSeq(arr, n + 1, Len(arr))
              ELSE arr,
      run |-> n]

RECURSIVE InsertionPoint(_, _, _, _, _)
\* the binary search of BinaryInsertionSort: where pivot goes in arr[left+1..right]
\* (left and right are the 0-based bounds of the source)
InsertionPoint(arr, pivot, left, right, sortEntries) ==
  IF left >= right THEN left
  ELSE LET mid == left + ((right - left) \div 2) IN
       IF SortCompare(pivot, arr[mid + 1], sortEntries) < 0
       THEN InsertionPoint(arr, pivot, left, mid, sortEntries)
       ELSE InsertionPoint(arr, pivot, mid + 1, right, sortEntries)

RECURSIVE BinaryInsertionSort(_, _, _)
\* BinaryInsertionSort from the 0-based index start on
BinaryInsertionSort(arr, start, sortEntries) ==
  IF start >= Len(arr) THEN arr
  ELSE LET pivot == arr[start + 1]
           left == InsertionPoint(arr, pivot, 0, start, sortEntries)
           placed == SubSeq(arr, 1, left) \o <<pivot>> \o SubSeq(arr, left + 1, start)
                       \o SubSeq(arr, start + 2, Len(arr))
       IN BinaryInsertionSort(placed, start + 1, sortEntries)

\* Collection.sortDocuments: [...docs].sort(comparator)
sortDocuments(docs, sortEntries) ==
  IF Len(docs) < 2 THEN docs
  ELSE LET made == MakeRun(docs, sortEntries) IN
       BinaryInsertionSort(made.arr, made.run, sortEntries)

\* ------------------------------------------------------------- state
VARIABLES
  qDoc,      \* QueryEngine run: the document handed to matches
  qQuery,    \* QueryEngine run: the query handed to matches
  qOut,      \* QueryEngine run: "pending", then "match" or "nomatch"
  uDoc,      \* applyUpdate run: the document the caller holds
  uUpdate,   \* applyUpdate run: the update description
  uOut,      \* applyUpdate run: one record per application made so far
  store,     \* the collection's object store: key |-> stored document
  stores,    \* Storage.stores: the names of the object stores that exist
  schema,    \* Collection.schema: "none", or "zod" for a validator
  idCount,   \* how many identifiers idGenerator has handed out
  calls,     \* per caller, the Collection call it has under way
  others,    \* the object stores of the other collections, by name
  fDocs,     \* filter run: the documents passed
  fQuery,    \* filter run: the query passed
  fOut,      \* filter run: its state, and the documents returned
  sDocs,     \* sortDocuments run: the documents passed
  sSort,     \* sortDocuments run: the sort entries passed
  sOut,      \* sortDocuments run: its state, and the documents returned
  connected,          \* BrowserDB.connected
  connectionPromise,  \* BrowserDB.connectionPromise: "pending" or "resolved"
  collections,        \* BrowserDB.collections: the registered names
  db,                 \* Storage.db: "null" or "open"
  idbVersion,         \* the version of the IndexedDB database itself
  dcalls,    \* per caller, the BrowserDB call it has under way
  afterClose,         \* close() has returned and connect() was not called since
  sync       \* the outcome of the last collection(name) call

qvars == <<qDoc, qQuery, qOut>>
uvars == <<uDoc, uUpdate, uOut>>
cvars == <<store, stores, schema, idCount, calls, others>>
fvars == <<fDocs, fQuery, fOut>>
svars == <<sDocs, sSort, sOut>>
dvars ==
  <<connected, connectionPromise, collections, db, idbVersion, dcalls,
    afterClose, sync>>
vars == <<qvars, uvars, cvars, fvars, svars, dvars>>

\* no QueryEngine run is under way
QIdle == qDoc = <<>> /\ qQuery = <<>> /\ qOut = "off"

\* no applyUpdate run is under way
UIdle == uDoc = <<>> /\ uUpdate = <<>> /\ uOut = <<>>

\* no filter run is under way
FIdle == fDocs = <<>> /\ fQuery = <<>> /\ fOut = [state |-> "off"]

\* no sortDocuments run is under way
SIdle == sDocs = <<>> /\ sSort = <<>> /\ sOut = [state |-> "off"]

\* no BrowserDB instance is in use
DIdle ==
  /\ connected = FALSE /\ connectionPromise = "null" /\ collections = {}
  /\ db = "null" /\ idbVersion = 0 /\ dcalls = <<>> /\ afterClose = FALSE
  /\ sync = [op |-> "none", name |-> "", err |-> "none"]

\* no collection is in use
CIdle ==
  /\ store = <<>> /\ stores = {} /\ schema = "none" /\ idCount = 0 /\ calls = <<>>
  /\ others = <<>>

\* --------------------------------------------- inputs of a QueryEngine run
\* the arrays of at most MaxArrLen strings, as objects of identity r
StrArrays(r) ==
  UNION {{Arr(es, r) : es \in [1..n -> {Str("x"), Str("y")}]} : n \in 0..MaxArrLen}

\* the documents a QueryEngine run is given
QDocs ==
  {d @@ ("_id" :> Str("a")) :
     d \in UNION {
       {("name" :> nm)} \cup {("name" :> nm) @@ ("age" :> a) : a \in {Null} \cup {Num(n) : n \in 1..MaxNum}}
         \cup {("name" :> nm) @@ ("tags" :> t) : t \in StrArrays(0)}
         \cup {("name" :> nm) @@ ("age" :> Num(1)) @@ ("tags" :> t) : t \in StrArrays(0)}
       : nm \in {Str("x"), Str("xy")}}}

\* an operator mapping {op: arg}
OpCond(op, arg) == Obj((op :> arg), 1)

\* field predicates on age
AgeConds ==
  {Num(1), Null, Obj(("$gte" :> Num(1)) @@ ("$lt" :> Num(2)), 1)}
    \cup {OpCond(op, Num(1)) : op \in {"$eq", "$ne", "$gt", "$gte", "$lt", "$lte"}}
    \cup {OpCond(op, Arr(<<Num(1), Null>>, 1)) : op \in {"$in", "$nin"}}
    \cup {OpCond("$exists", Bool(b)) : b \in BOOLEAN}

\* field predicates on tags
TagsConds ==
  StrArrays(1)
    \cup {OpCond("$contains", Str("x")), OpCond("$eq", Arr(<<Str("x")>>, 1)),
          OpCond("$ne", Arr(<<>>, 1)), OpCond("$exists", Bool(TRUE))}

\* field predicates on name
NameConds ==
  {Str("x"), OpCond("$startsWith", Str("x")), OpCond("$endsWith", Str("y")),
   OpCond("$regex", Str("y")), OpCond("$regex", RegExpOf("xy")),
   OpCond("$gt", Str("x"))}

\* the non-empty operand sequences given to $in and $nin
InOperands ==
  {Arr(<<Num(1)>>, 1), Arr(<<Num(2), Null>>, 1), Arr(<<Str("x"), Str("xy")>>, 1),
   Arr(<<Arr(<<Str("x")>>, 1)>>, 1), Arr(<<Undefined>>, 1)}

\* $in and $nin predicates on a number, a string, an array, an array element
\* and a field no document has
InQueries ==
  {(f :> OpCond(op, S)) :
     f \in {"age", "name", "tags", "tags.0", "zip"}, op \in {"$in", "$nin"}, S \in InOperands}

\* query nodes made of field predicates only
LeafQueries ==
  {<<>>}
    \cup InQueries
    \cup {("age" :> c) : c \in AgeConds}
    \cup {("tags" :> c) : c \in TagsConds}
    \cup {("name" :> c) : c \in NameConds}
    \cup {("tags.0" :> Str("x")), ("tags.1" :> OpCond("$exists", Bool(TRUE)))}
    \cup {("age" :> Num(1)) @@ ("name" :> Str("x"))}

\* the sub-queries a combinator is given
SubQueries ==
  {<<>>, ("age" :> Num(1)), ("age" :> OpCond("$gt", Num(1))),
   ("name" :> Str("x")), ("tags" :> OpCond("$contains", Str("x")))}

\* the field predicates a node carries beside its combinators
SideFields ==
  {<<>>, ("age" :> Num(1)), ("name" :> Str("xy")), ("tags" :> OpCond("$contains", Str("y")))}

\* sequences of at most two sub-queries
SubLists == {<<>>} \cup {<<a>> : a \in SubQueries} \cup {<<a, b>> : a, b \in SubQueries}

\* nodes with one combinator, alone or beside field predicates
OneCombinator ==
  {("$and" :> l) @@ f : l \in SubLists, f \in SideFields}
    \cup {("$or" :> l) @@ f : l \in SubLists, f \in SideFields}
    \cup {("$not" :> a) @@ f : a \in SubQueries, f \in SideFields}

\* nodes with two combinators, and combinators nested in combinators
Composed ==
  {("$and" :> <<a>>) @@ ("$or" :> <<b>>) : a, b \in SubQueries}
    \cup {("$and" :> <<a>>) @@ ("$not" :> b) : a, b \in SubQueries}
    \cup {("$or" :> <<a>>) @@ ("$not" :> b) : a, b \in SubQueries}
    \cup {("$not" :> (("$and" :> <<a, b>>) @@ f)) : a, b \in {("age" :> Num(1)), ("name" :> Str("x"))}, f \in SideFields}
    \cup {("$or" :> <<("$not" :> a), ("$and" :> <<a, b>>)>>) : a, b \in SubQueries}

\* the queries a QueryEngine run is given
Queries == LeafQueries \cup OneCombinator \cup Composed

\* ------------------------------------------------- a QueryEngine run
QInit ==
  /\ qDoc \in QDocs
  /\ qQuery \in Queries
  /\ qOut = "pending"
  /\ UIdle
  /\ CIdle
  /\ FIdle
  /\ SIdle
  /\ DIdle

\* the caller calls matches(qDoc, qQuery)
Matches ==
  /\ qOut = "pending"
  /\ qOut' = IF matches(qDoc, qQuery) THEN "match" ELSE "nomatch"
  /\ UNCHANGED <<qDoc, qQuery, uvars, cvars, fvars, svars, dvars>>

QNext == Matches

SpecQuery == QInit /\ [][QNext]_vars

\* ------------------------------------- a query run on mapping values
\* the mappings compared: up to two keys, a value of which may be undefined
MappingValues == {Undefined, Num(1), Num(2), Obj(("a" :> Num(1)), 0)}
Mappings == UNION {[K -> MappingValues] : K \in SUBSET {"a", "b"}}
EqualityOps == {"$eq", "$ne", "$in", "$nin", "$contains"}

\* a stored document that holds the mapping, in an array for $contains
EDoc(op, f) ==
  ("_id" :> Str("a"))
    @@ ("meta" :> IF op = "$contains" THEN Arr(<<Obj(f, 0)>>, 0) ELSE Obj(f, 0))

\* the query {meta: {op: operand}} built on the mapping
EQuery(op, g) ==
  ("meta" :> OpCond(op, IF op \in {"$in", "$nin"} THEN Arr(<<Obj(g, 1)>>, 1) ELSE Obj(g, 1)))

\* a document and a query on its mapping are chosen
EInit ==
  /\ \E op \in EqualityOps : \E f \in Mappings : \E g \in Mappings :
       qDoc = EDoc(op, f) /\ qQuery = EQuery(op, g)
  /\ qOut = "pending"
  /\ UIdle
  /\ CIdle
  /\ FIdle
  /\ SIdle
  /\ DIdle

SpecEqual == EInit /\ [][QNext]_vars

\* ------------------------------------------------- inputs of a filter run
\* the longest list of documents filter is given
MaxDocs == 3

\* the documents of the lists
FDocs ==
  {("_id" :> Str("a")) @@ ("age" :> Num(1)), ("_id" :> Str("b")) @@ ("age" :> Num(2)),
   ("_id" :> Str("c")) @@ ("age" :> Num(1)), ("_id" :> Str("a"))}

\* the lists filter is given
FDocLists == UNION {[1..n -> FDocs] : n \in 0..MaxDocs}

\* the queries filter is given: none, the empty one, and some that select
FQueries ==
  {NoQuery, <<>>, ("age" :> Num(1)), ("age" :> OpCond("$gte", Num(2))),
   ("$not" :> ("age" :> Num(1))),
   ("_id" :> OpCond("$in", Arr(<<Str("a"), Str("c")>>, 1)))}

\* ------------------------------------------------------- a filter run
FInit ==
  /\ fDocs \in FDocLists
  /\ fQuery \in FQueries
  /\ fOut = [state |-> "pending"]
  /\ QIdle
  /\ UIdle
  /\ CIdle
  /\ SIdle
  /\ DIdle

\* the caller calls filter(fDocs, fQuery)
Filter ==
  /\ fOut.state = "pending"
  /\ fOut' = [state |-> "returned", docs |-> filter(fDocs, fQuery)]
  /\ UNCHANGED <<fDocs, fQuery, qvars, uvars, cvars, svars, dvars>>

FNext == Filter

SpecFilter == FInit /\ [][FNext]_vars

\* --------------------------------------------- inputs of an applyUpdate run
\* what a stored array may hold: strings, an array, a plain object
StoredElems == {Str("x"), Str("y"), Arr(<<Str("x")>>, 0), Obj(("k" :> Num(1)), 0)}

\* the arrays a stored document may hold in tags
StoredArrays ==
  UNION {{Arr(es, 0) : es \in [1..n -> StoredElems]} : n \in 0..MaxArrLen}

\* the documents an applyUpdate run is given: as a store read hands them out
UDocs ==
  {d @@ ("_id" :> Str("a")) :
     d \in {<<>>} \cup {("age" :> Num(n)) : n \in 0..MaxNum}
             \cup {("tags" :> t) : t \in StoredArrays}
             \cup {("age" :> Num(1)) @@ ("tags" :> t) : t \in StoredArrays}}

\* the operands a caller passes for an array field: strings, and an array and
\* a plain object of the caller's own
ArrayOperands == {Str("x"), Str("y"), Arr(<<Str("x")>>, 1), Obj(("k" :> Num(1)), 1)}

\* the mappings each operator may carry
OperatorArgs(op) ==
  CASE op = "$set" ->
         {("age" :> Num(1)), ("tags" :> Arr(<<Str("y")>>, 1)), ("_id" :> Str("b"))}
    [] op = "$unset" ->
         {("age" :> Bool(TRUE)), ("tags" :> Bool(TRUE)), ("_id" :> Bool(TRUE))}
    [] op = "$inc" ->
         {("age" :> Num(1)), ("age" :> Str("x")), ("tags" :> Num(1))}
    [] op = "$push" ->
         {("tags" :> x) : x \in ArrayOperands} \cup {("age" :> Str("x"))}
    [] op = "$pull" ->
         {("tags" :> x) : x \in ArrayOperands} \cup {("age" :> Num(1))}
    [] op = "$addToSet" ->
         {("tags" :> x) : x \in ArrayOperands} \cup {("age" :> Num(1))}

UpdateOps == {"$set", "$unset", "$inc", "$push", "$pull", "$addToSet"}

\* direct updates
DirectUpdates ==
  {("age" :> Num(2)), ("tags" :> Arr(<<Str("y")>>, 1)), ("_id" :> Str("b")),
   ("age" :> Num(0)) @@ ("tags" :> Arr(<<>>, 1))}

\* operator updates with one operator, with two, and with all six
OperatorUpdates ==
  UNION {{(op :> a) : a \in OperatorArgs(op)} : op \in UpdateOps}
    \cup UNION {{(o1 :> a1) @@ (o2 :> a2) : a1 \in OperatorArgs(o1), a2 \in OperatorArgs(o2)}
                  : o1 \in {"$set", "$push"}, o2 \in {"$unset", "$inc", "$pull", "$addToSet"}}
    \cup {[op \in UpdateOps |->
             IF op \in {"$set", "$unset", "$inc"} THEN ("age" :> x) ELSE ("tags" :> y)]
            : x \in {Num(1)}, y \in {Str("x"), Arr(<<Str("x")>>, 1)}}
    \cup {("$set" :> ("age" :> Num(1))) @@ ("age" :> Num(2)),
          ("$push" :> ("tags" :> Str("x"))) @@ ("tags" :> Arr(<<Str("y")>>, 1)),
          ("$unset" :> ("tags" :> Bool(TRUE))) @@ ("name" :> Str("x"))}

\* the update descriptions an applyUpdate run is given
Updates == DirectUpdates \cup OperatorUpdates

\* ------------------------------------------------- an applyUpdate run
UInit ==
  /\ uDoc \in UDocs
  /\ uUpdate \in Updates
  /\ uOut = <<>>
  /\ QIdle
  /\ CIdle
  /\ FIdle
  /\ SIdle
  /\ DIdle

\* what one application leaves behind: the document passed, the document
\* returned, and the caller's document as it is after the call
Application(doc, update) ==
  [given |-> doc, result |-> applyUpdate(doc, update), input |-> InputAfterUpdate(doc, update)]

\* the caller calls applyUpdate(uDoc, uUpdate)
ApplyFirst ==
  /\ uOut = <<>>
  /\ uOut' = <<Application(uDoc, uUpdate)>>
  /\ UNCHANGED <<uDoc, uUpdate, qvars, cvars, fvars, svars, dvars>>

\* the same description is applied to what the first application returned, as
\* updateById does when it is called a second time: the document went through
\* Storage.update and comes back from Storage.getById as a structured clone
ApplyAgainStored ==
  /\ Len(uOut) = 1
  /\ uOut' = Append(uOut, Application(CloneDoc(uOut[1].result), uUpdate))
  /\ UNCHANGED <<uDoc, uUpdate, qvars, cvars, fvars, svars, dvars>>

\* the same description is applied to the very object the first application
\* returned
ApplyAgainDirect ==
  /\ Len(uOut) = 1
  /\ uOut' = Append(uOut, Application(uOut[1].result, uUpdate))
  /\ UNCHANGED <<uDoc, uUpdate, qvars, cvars, fvars, svars, dvars>>

UNext == ApplyFirst \/ ApplyAgainStored \/ ApplyAgainDirect

SpecUpdate == UInit /\ [][UNext]_vars

\* ------------------------------------------------ Storage (IndexedDB)
\* the name of the collection
CollName == "users"

\* A request takes effect when its transaction is created, and transactions
\* on one object store run in the order they were created; so each Storage
\* call is one step, taken when the Collection method reaches it.
\* a lookup that hands out a stored document whatever the identifier
AnyDocument(id) ==
  IF CollName \in stores /\ DOMAIN store # {}
  THEN CloneDoc(store[CHOOSE k \in DOMAIN store : TRUE])
  ELSE Null

\* Storage.getById
getById(id) ==
  IF CollName \in stores /\ id.str \in DOMAIN store THEN CloneDoc(store[id.str]) ELSE Null

RECURSIVE KeyOrder(_)
\* the keys in ascending order, the order of store.getAll()
KeyOrder(keys) ==
  IF keys = {} THEN <<>>
  ELSE LET first == CHOOSE k \in keys : \A o \in keys \ {k} : StrLess(k, o) IN
       <<first>> \o KeyOrder(keys \ {first})

\* Storage.getAll
getAll ==
  IF CollName \in stores
  THEN LET order == KeyOrder(DOMAIN store) IN
       [i \in 1..Len(order) |-> CloneDoc(store[order[i]])]
  ELSE <<>>

\* the object store has keyPath '_id': a document without a key there cannot
\* be written (DataError)
HasKey(doc) == "_id" \in DOMAIN doc /\ IsStr(doc["_id"])

\* the key of a document
KeyOf(doc) == doc["_id"].str

\* a put that never replaces a stored document
AddOnly(st, doc) ==
  [k \in DOMAIN st \cup {KeyOf(doc)} |-> IF k \in DOMAIN st THEN st[k] ELSE CloneDoc(doc)]

\* a put that never creates a document
UpdateOnly(st, doc) ==
  [k \in DOMAIN st |-> IF k = KeyOf(doc) THEN CloneDoc(doc) ELSE st[k]]

\* store.put(doc): insert or overwrite under the document's key
Put(st, doc) ==
  [k \in DOMAIN st \cup {KeyOf(doc)} |-> IF k = KeyOf(doc) THEN CloneDoc(doc) ELSE st[k]]

\* an add that succeeds on every key
AlwaysAdd(st, doc) == TRUE

\* store.add(doc) succeeds: the key is not in the store (else ConstraintError)
CanAdd(st, doc) == KeyOf(doc) \notin DOMAIN st

RECURSIVE AddAll(_, _)
\* the store.add calls of Storage.insertMany, in one transaction: the store
\* after them, ok being FALSE when one of them failed
AddAll(st, docs) ==
  IF docs = <<>> THEN [ok |-> TRUE, store |-> st]
  ELSE IF ~CanAdd(st, Head(docs)) THEN [ok |-> FALSE, store |-> st]
  ELSE AddAll(Put(st, Head(docs)), Tail(docs))

\* a store.delete that leaves the store as it is
NothingRemoved(st, key) == st

\* store.delete(key)
Remove(st, key) == [k \in DOMAIN st \ {key} |-> st[k]]

\* a store.clear that leaves the store as it is
NothingCleared(st) == st

\* store.clear()
Cleared(st) == <<>>

\* Storage.delete: nothing happens when the object store does not exist
delete(st, key) == IF CollName \in stores THEN Remove(st, key) ELSE st

\* Storage.clear: nothing happens when the object store does not exist
clear(st) == IF CollName \in stores THEN Cleared(st) ELSE st

\* Storage.hasStore, which BrowserDB.hasCollection returns
hasStore(name) == name \in stores

\* Storage.ensureStore: the object store exists afterwards
ensureStore == stores \cup {CollName}

\* ------------------------------------------------------- Collection
\* the largest number of identifiers idGenerator is asked for
MaxGen == 1

\* what idGenerator returns, call after call
GenIds == <<"g1", "g2", "g3", "g4">>

\* schema.safeParse(doc).success of the collection's validator: the schema
\* z.object({ _id: z.string().optional(), age: z.number() })
SchemaAccepts(doc) ==
  /\ "age" \in DOMAIN doc /\ IsNum(doc["age"])
  /\ "_id" \in DOMAIN doc => IsStr(doc["_id"])

\* a validator that accepts every document
AcceptAll(doc) == TRUE

\* Collection.validate returns (it throws ValidationError otherwise)
validate(doc) == schema = "none" \/ SchemaAccepts(doc)

\* doc._id is falsy, so idGenerator is called
NeedsId(doc) == ~Truthy(Field(doc, "_id"))

\* { ...doc, _id: id } with id = doc._id || idGenerator(), n identifiers
\* having been generated before
NewDoc(doc, n) ==
  LET id == IF NeedsId(doc) THEN Str(GenIds[n + 1]) ELSE doc["_id"] IN
  [k \in DOMAIN doc \cup {"_id"} |-> IF k = "_id" THEN id ELSE doc[k]]

\* idGenerator's count after doc got its identifier
CountAfter(doc, n) == IF NeedsId(doc) THEN n + 1 ELSE n

\* a caller with no call under way
Idle ==
  [op |-> "none", pc |-> "idle", args |-> <<>>, local |-> <<>>,
   err |-> "none", value |-> Undefined]

\* a call that has run up to its first await (pc names what it awaits)
Started(op, pc, args, local) ==
  [op |-> op, pc |-> pc, args |-> args, local |-> local, err |-> "none", value |-> Undefined]

\* the call's promise resolves with value
Resolved(c, value) == [c EXCEPT !.pc = "done", !.value = value]

\* the call's promise rejects with an error of kind err
Rejected(c, err) == [c EXCEPT !.pc = "done", !.err = err]

\* a duplicate check that finds nothing
NoDuplicateFound(existing) == FALSE

\* `if (existing)` of insert
DuplicateFound(existing) == existing # Null

\* insert(doc) up to `await this.storage.getById`
InsertCall(p, doc) ==
  /\ calls[p].pc = "idle"
  /\ NeedsId(doc) => idCount < MaxGen
  /\ LET newDoc == NewDoc(doc, idCount) IN
     calls' = [calls EXCEPT ![p] =
       IF validate(newDoc)
       THEN Started("insert", "lookup", [docs |-> <<doc>>],
                    [newDoc |-> newDoc, existing |-> getById(newDoc["_id"])])
       ELSE Rejected(Started("insert", "call", [docs |-> <<doc>>], [newDoc |-> newDoc]),
                     "ValidationError")]
  /\ idCount' = CountAfter(doc, idCount)
  /\ UNCHANGED <<store, stores, schema, others, qvars, uvars, fvars, svars, dvars>>

\* insert after the lookup: the duplicate check, then Storage.insert
\* (ensureStore, store.add)
InsertWrite(p) ==
  /\ calls[p].op = "insert" /\ calls[p].pc = "lookup"
  /\ LET c == calls[p] IN
     IF DuplicateFound(c.local.existing)
     THEN /\ calls' = [calls EXCEPT ![p] = Rejected(c, "DuplicateKeyError")]
          /\ UNCHANGED <<store, stores>>
     ELSE /\ stores' = ensureStore
          /\ IF CanAdd(store, c.local.newDoc)
             THEN /\ store' = Put(store, c.local.newDoc)
                  /\ calls' = [calls EXCEPT ![p] = Resolved(c, CloneDoc(c.local.newDoc))]
             ELSE /\ store' = store
                  /\ calls' = [calls EXCEPT ![p] = Rejected(c, "StorageError")]
  /\ UNCHANGED <<schema, idCount, others, qvars, uvars, fvars, svars, dvars>>

\* insertFast(doc) up to `await this.storage.insert`, which first awaits
\* ensureStore
InsertFastCall(p, doc) ==
  /\ calls[p].pc = "idle"
  /\ NeedsId(doc) => idCount < MaxGen
  /\ LET newDoc == NewDoc(doc, idCount)
         c == Started("insertFast", "write", [docs |-> <<doc>>], [newDoc |-> newDoc])
     IN calls' = [calls EXCEPT ![p] =
          IF validate(newDoc) THEN c ELSE Rejected(c, "ValidationError")]
  /\ idCount' = CountAfter(doc, idCount)
  /\ UNCHANGED <<store, stores, schema, others, qvars, uvars, fvars, svars, dvars>>

\* Storage.insert of insertFast: store.add
InsertFastWrite(p) ==
  /\ calls[p].op = "insertFast" /\ calls[p].pc = "write"
  /\ LET c == calls[p] IN
     /\ stores' = ensureStore
     /\ IF CanAdd(store, c.local.newDoc)
        THEN /\ store' = Put(store, c.local.newDoc)
             /\ calls' = [calls EXCEPT ![p] = Resolved(c, CloneDoc(c.local.newDoc))]
        ELSE /\ store' = store
             /\ calls' = [calls EXCEPT ![p] = Rejected(c, "StorageError")]
  /\ UNCHANGED <<schema, idCount, others, qvars, uvars, fvars, svars, dvars>>

RECURSIVE PrepareMany(_, _, _)
\* the loop of insertMany: identifiers are assigned and each document is
\* validated in turn; valid is FALSE when validate threw
PrepareMany(docs, n, newDocs) ==
  IF docs = <<>> THEN [newDocs |-> newDocs, idCount |-> n, valid |-> TRUE]
  ELSE LET newDoc == NewDoc(Head(docs), n) IN
       IF ~validate(newDoc)
       THEN [newDocs |-> newDocs, idCount |-> CountAfter(Head(docs), n), valid |-> FALSE]
       ELSE PrepareMany(Tail(docs), CountAfter(Head(docs), n), Append(newDocs, newDoc))

\* insertMany(docs) up to `await this.storage.insertMany`
InsertManyCall(p, docs) ==
  /\ calls[p].pc = "idle"
  /\ idCount + Cardinality({i \in 1..Len(docs) : NeedsId(docs[i])}) <= MaxGen
  /\ LET prep == PrepareMany(docs, idCount, <<>>)
         c == Started("insertMany", "write", [docs |-> docs], [newDocs |-> prep.newDocs])
     IN /\ calls' = [calls EXCEPT ![p] =
             IF prep.valid THEN c ELSE Rejected(c, "ValidationError")]
        /\ idCount' = prep.idCount
  /\ UNCHANGED <<store, stores, schema, others, qvars, uvars, fvars, svars, dvars>>

\* Storage.insertMany: every store.add in one transaction, which aborts as a
\* whole when one of them fails
InsertManyWrite(p) ==
  /\ calls[p].op = "insertMany" /\ calls[p].pc = "write"
  /\ LET c == calls[p]
         added == AddAll(store, c.local.newDocs)
     IN /\ stores' = ensureStore
        /\ IF added.ok
           THEN /\ store' = added.store
                /\ calls' = [calls EXCEPT ![p] =
                     Resolved(c, [i \in 1..Len(c.local.newDocs) |-> CloneDoc(c.local.newDocs[i])])]
           ELSE /\ store' = store
                /\ calls' = [calls EXCEPT ![p] = Rejected(c, "StorageError")]
  /\ UNCHANGED <<schema, idCount, others, qvars, uvars, fvars, svars, dvars>>

\* options?.name
Option(options, name) == IF name \in DOMAIN options THEN options[name] ELSE Undefined

\* seq.slice(from, to) for 0 <= from and 0 <= to
Slice(seq, from, to) ==
  SubSeq(seq, from + 1, IF to < Len(seq) THEN to ELSE Len(seq))

\* the sort stage of find
SortStage(results, options) ==
  IF "sort" \in DOMAIN options THEN sortDocuments(results, options["sort"]) ELSE results

\* the skip stage of find
SkipStage(results, options) ==
  IF Truthy(Option(options, "skip"))
  THEN Slice(results, options["skip"].num, Len(results))
  ELSE results

\* the limit stage of find
LimitStage(results, options) ==
  IF Truthy(Option(options, "limit"))
  THEN Slice(results, 0, options["limit"].num)
  ELSE results

\* what find returns from the documents Storage.getAll gave it; options is a
\* function from the names of the options that are present
findResults(allDocs, query, options) ==
  LET results ==
        LimitStage(SkipStage(SortStage(filter(allDocs, query), options), options), options)
  IN [i \in 1..Len(results) |-> CloneDoc(results[i])]

\* what findOne returns from the documents Storage.getAll gave it
findOneResult(allDocs, query) ==
  LET results == findResults(allDocs, query, ("limit" :> Num(1))) IN
  IF Len(results) > 0 THEN results[1] ELSE Null

\* find(query, options) up to `await this.storage.getAll`
FindCall(p, query, options) ==
  /\ calls[p].pc = "idle"
  /\ calls' = [calls EXCEPT ![p] =
       Started("find", "scan", [query |-> query, options |-> options], [allDocs |-> getAll])]
  /\ UNCHANGED <<store, stores, schema, idCount, others, qvars, uvars, fvars, svars, dvars>>

\* find after the scan: filter, sort, skip, limit, clone
FindReturn(p) ==
  /\ calls[p].op = "find" /\ calls[p].pc = "scan"
  /\ LET c == calls[p] IN
     calls' = [calls EXCEPT ![p] =
       Resolved(c, findResults(c.local.allDocs, c.args.query, c.args.options))]
  /\ UNCHANGED <<store, stores, schema, idCount, others, qvars, uvars, fvars, svars, dvars>>

\* update(query, update) up to `await this.storage.getAll`
UpdateCall(p, query, update) ==
  /\ calls[p].pc = "idle"
  /\ calls' = [calls EXCEPT ![p] =
       Started("update", "scan", [query |-> query, update |-> update],
               [allDocs |-> getAll, i |-> 1])]
  /\ UNCHANGED <<store, stores, schema, idCount, others, qvars, uvars, fvars, svars, dvars>>

\* one round of update's loop: applyUpdate on the next match and
\* Storage.update (ensureStore, store.put); the call returns the count after
\* the last match, or at once when nothing matched
UpdateWrite(p) ==
  /\ calls[p].op = "update" /\ calls[p].pc = "scan"
  /\ LET c == calls[p]
         found == filter(c.local.allDocs, c.args.query)
         i == c.local.i
     IN IF Len(found) = 0
        THEN /\ calls' = [calls EXCEPT ![p] = Resolved(c, Num(0))]
             /\ UNCHANGED <<store, stores>>
        ELSE LET updatedDoc == applyUpdate(found[i], c.args.update) IN
             /\ stores' = ensureStore
             /\ IF ~HasKey(updatedDoc)
                THEN /\ store' = store
                     /\ calls' = [calls EXCEPT ![p] = Rejected(c, "DataError")]
                ELSE /\ store' = Put(store, updatedDoc)
                     /\ calls' = [calls EXCEPT ![p] =
                          IF i = Len(found) THEN Resolved(c, Num(i))
                          ELSE [c EXCEPT !.local.i = i + 1]]
  /\ UNCHANGED <<schema, idCount, others, qvars, uvars, fvars, svars, dvars>>

\* updateOne(query, update) up to the `await this.storage.getAll` of findOne
UpdateOneCall(p, query, update) ==
  /\ calls[p].pc = "idle"
  /\ calls' = [calls EXCEPT ![p] =
       Started("updateOne", "scan", [query |-> query, update |-> update],
               [allDocs |-> getAll])]
  /\ UNCHANGED <<store, stores, schema, idCount, others, qvars, uvars, fvars, svars, dvars>>

\* the rest of a point update once its document is known: null when there
\* is none, else applyUpdate and Storage.update (ensureStore, store.put)
PointUpdate(p, doc) ==
  LET c == calls[p] IN
  IF doc = Null
  THEN /\ calls' = [calls EXCEPT ![p] = Resolved(c, Null)]
       /\ UNCHANGED <<store, stores>>
  ELSE LET updatedDoc == applyUpdate(doc, c.args.update) IN
       /\ stores' = ensureStore
       /\ IF ~HasKey(updatedDoc)
          THEN /\ store' = store
               /\ calls' = [calls EXCEPT ![p] = Rejected(c, "DataError")]
          ELSE /\ store' = Put(store, updatedDoc)
               /\ calls' = [calls EXCEPT ![p] = Resolved(c, CloneDoc(updatedDoc))]

\* updateOne after findOne
UpdateOneWrite(p) ==
  /\ calls[p].op = "updateOne" /\ calls[p].pc = "scan"
  /\ PointUpdate(p, findOneResult(calls[p].local.allDocs, calls[p].args.query))
  /\ UNCHANGED <<schema, idCount, others, qvars, uvars, fvars, svars, dvars>>

\* updateById(id, update) up to `await this.storage.getById`
UpdateByIdCall(p, id, update) ==
  /\ calls[p].pc = "idle"
  /\ calls' = [calls EXCEPT ![p] =
       Started("updateById", "lookup", [id |-> id, update |-> update], [doc |-> getById(id)])]
  /\ UNCHANGED <<store, stores, schema, idCount, others, qvars, uvars, fvars, svars, dvars>>

\* updateById after the lookup
UpdateByIdWrite(p) ==
  /\ calls[p].op = "updateById" /\ calls[p].pc = "lookup"
  /\ PointUpdate(p, calls[p].local.doc)
  /\ UNCHANGED <<schema, idCount, others, qvars, uvars, fvars, svars, dvars>>

\* a lookup that never finds a document
AlwaysNull(doc) == Null

\* `doc ? deepClone(doc) : null`
CloneOrNull(doc) == IF doc = Null THEN Null ELSE CloneDoc(doc)

\* findById(id) up to `await this.storage.getById`
FindByIdCall(p, id) ==
  /\ calls[p].pc = "idle"
  /\ calls' = [calls EXCEPT ![p] =
       Started("findById", "lookup", [id |-> id], [doc |-> getById(id)])]
  /\ UNCHANGED <<store, stores, schema, idCount, others, qvars, uvars, fvars, svars, dvars>>

\* findById after the lookup
FindByIdReturn(p) ==
  /\ calls[p].op = "findById" /\ calls[p].pc = "lookup"
  /\ calls' = [calls EXCEPT ![p] = Resolved(calls[p], CloneOrNull(calls[p].local.doc))]
  /\ UNCHANGED <<store, stores, schema, idCount, others, qvars, uvars, fvars, svars, dvars>>

\* findOne(query) up to the `await this.storage.getAll` of find
FindOneCall(p, query) ==
  /\ calls[p].pc = "idle"
  /\ calls' = [calls EXCEPT ![p] =
       Started("findOne", "scan", [query |-> query], [allDocs |-> getAll])]
  /\ UNCHANGED <<store, stores, schema, idCount, others, qvars, uvars, fvars, svars, dvars>>

\* findOne after the scan: `results[0] || null`
FindOneReturn(p) ==
  /\ calls[p].op = "findOne" /\ calls[p].pc = "scan"
  /\ calls' = [calls EXCEPT ![p] =
       Resolved(calls[p], findOneResult(calls[p].local.allDocs, calls[p].args.query))]
  /\ UNCHANGED <<store, stores, schema, idCount, others, qvars, uvars, fvars, svars, dvars>>

\* what count returns from the documents Storage.getAll gave it
countResult(allDocs, query) == Num(Len(filter(allDocs, query)))

\* count(query) up to `await this.storage.getAll`
CountCall(p, query) ==
  /\ calls[p].pc = "idle"
  /\ calls' = [calls EXCEPT ![p] =
       Started("count", "scan", [query |-> query], [allDocs |-> getAll])]
  /\ UNCHANGED <<store, stores, schema, idCount, others, qvars, uvars, fvars, svars, dvars>>

\* count after the scan
CountReturn(p) ==
  /\ calls[p].op = "count" /\ calls[p].pc = "scan"
  /\ calls' = [calls EXCEPT ![p] =
       Resolved(calls[p], countResult(calls[p].local.allDocs, calls[p].args.query))]
  /\ UNCHANGED <<store, stores, schema, idCount, others, qvars, uvars, fvars, svars, dvars>>

\* delete(query) up to `await this.storage.getAll`
DeleteCall(p, query) ==
  /\ calls[p].pc = "idle"
  /\ calls' = [calls EXCEPT ![p] =
       Started("delete", "scan", [query |-> query], [allDocs |-> getAll, i |-> 1])]
  /\ UNCHANGED <<store, stores, schema, idCount, others, qvars, uvars, fvars, svars, dvars>>

\* one round of delete's loop: Storage.delete of the next match; the call
\* returns matches.length after the last, or at once when nothing matched
DeleteWrite(p) ==
  /\ calls[p].op = "delete" /\ calls[p].pc = "scan"
  /\ LET c == calls[p]
         found == filter(c.local.allDocs, c.args.query)
         i == c.local.i
     IN IF Len(found) = 0
        THEN /\ calls' = [calls EXCEPT ![p] = Resolved(c, Num(0))]
             /\ store' = store
        ELSE /\ store' = delete(store, KeyOf(found[i]))
             /\ calls' = [calls EXCEPT ![p] =
                  IF i = Len(found) THEN Resolved(c, Num(Len(found)))
                  ELSE [c EXCEPT !.local.i = i + 1]]
  /\ UNCHANGED <<stores, schema, idCount, others, qvars, uvars, fvars, svars, dvars>>

\* deleteById(id) up to `await this.storage.getById`
DeleteByIdCall(p, id) ==
  /\ calls[p].pc = "idle"
  /\ calls' = [calls EXCEPT ![p] =
       Started("deleteById", "lookup", [id |-> id], [doc |-> getById(id)])]
  /\ UNCHANGED <<store, stores, schema, idCount, others, qvars, uvars, fvars, svars, dvars>>

\* deleteById after the lookup: null when there is no document, else
\* Storage.delete and a copy of the document
DeleteByIdWrite(p) ==
  /\ calls[p].op = "deleteById" /\ calls[p].pc = "lookup"
  /\ LET c == calls[p] IN
     IF c.local.doc = Null
     THEN /\ calls' = [calls EXCEPT ![p] = Resolved(c, Null)]
          /\ store' = store
     ELSE /\ store' = delete(store, c.args.id.str)
          /\ calls' = [calls EXCEPT ![p] = Resolved(c, CloneDoc(c.local.doc))]
  /\ UNCHANGED <<stores, schema, idCount, others, qvars, uvars, fvars, svars, dvars>>

\* clear() up to `await this.storage.clear`, whose request is made at once
ClearCall(p) ==
  /\ calls[p].pc = "idle"
  /\ store' = clear(store)
  /\ calls' = [calls EXCEPT ![p] = Started("clear", "write", <<>>, <<>>)]
  /\ UNCHANGED <<stores, schema, idCount, others, qvars, uvars, fvars, svars, dvars>>

\* clear after its request succeeded
ClearReturn(p) ==
  /\ calls[p].op = "clear" /\ calls[p].pc = "write"
  /\ calls' = [calls EXCEPT ![p] = Resolved(calls[p], Undefined)]
  /\ UNCHANGED <<store, stores, schema, idCount, others, qvars, uvars, fvars, svars, dvars>>

\* the caller takes the outcome of its call
Return(p) ==
  /\ calls[p].pc = "done"
  /\ calls' = [calls EXCEPT ![p] = Idle]
  /\ UNCHANGED <<store, stores, schema, idCount, others, qvars, uvars, fvars, svars, dvars>>

\* ------------------------------------------- inputs of Collection calls
\* the callers of the collection
Callers == {1}

\* the documents handed to insert and insertFast
CDocs ==
  {id @@ age : id \in {<<>>, ("_id" :> Str("a")), ("_id" :> Str("b"))},
               age \in {<<>>, ("age" :> Num(1)), ("age" :> Num(2))}}

\* the batches handed to insertMany
CBatches ==
  LET few == {("_id" :> Str("a")) @@ ("age" :> Num(1)), ("_id" :> Str("b")) @@ ("age" :> Num(2)),
              ("_id" :> Str("b")), ("age" :> Num(2))}
  IN {<<>>} \cup {<<d>> : d \in few} \cup {<<d, e>> : d, e \in few}

\* the queries handed to find and the update methods
CQueries ==
  {NoQuery, <<>>, ("age" :> Num(1)), ("age" :> OpCond("$gte", Num(2))), ("_id" :> Str("a"))}

\* the options handed to find
COptions ==
  {sort @@ skip @@ limit :
     sort \in {<<>>, ("sort" :> <<<<"age", Num(1)>>>>), ("sort" :> <<<<"age", Str("desc")>>>>)},
     skip \in {<<>>, ("skip" :> Num(0)), ("skip" :> Num(1))},
     limit \in {<<>>, ("limit" :> Num(0)), ("limit" :> Num(1)), ("limit" :> Num(2))}}

\* the update descriptions handed to the update methods
CUpdates ==
  {("$set" :> ("age" :> Num(2))),
   ("$unset" :> ("age" :> Bool(TRUE))), ("$set" :> ("_id" :> Str("b"))),
   ("$unset" :> ("_id" :> Bool(TRUE))), ("_id" :> Str("b")), ("age" :> Num(1))}

\* the identifiers handed to updateById
CIds == {Str("a"), Str("b"), Str("g1")}

\* ------------------------------------------------------- the collection
\* the other collection of the database, and what it holds
OtherName == "posts"
OtherDocs == ("p1" :> (("_id" :> Str("p1")) @@ ("age" :> Num(1))))

\* a database opened with the other collection in it, and a collection of
\* its own created with or without a validator, its object store not yet made
CInit ==
  /\ store = <<>>
  /\ stores = {OtherName}
  /\ others = (OtherName :> OtherDocs)
  /\ schema \in {"none", "zod"}
  /\ idCount = 0
  /\ calls = [p \in Callers |-> Idle]
  /\ QIdle
  /\ UIdle
  /\ FIdle
  /\ SIdle
  /\ DIdle

Next ==
  \E p \in Callers :
    \/ \E doc \in CDocs : InsertCall(p, doc)
    \/ InsertWrite(p)
    \/ \E doc \in CDocs : InsertFastCall(p, doc)
    \/ InsertFastWrite(p)
    \/ \E docs \in CBatches : InsertManyCall(p, docs)
    \/ InsertManyWrite(p)
    \/ \E query \in CQueries, options \in COptions : FindCall(p, query, options)
    \/ FindReturn(p)
    \/ \E query \in CQueries, update \in CUpdates : UpdateCall(p, query, update)
    \/ UpdateWrite(p)
    \/ \E query \in CQueries, update \in CUpdates : UpdateOneCall(p, query, update)
    \/ UpdateOneWrite(p)
    \/ \E id \in CIds, update \in CUpdates : UpdateByIdCall(p, id, update)
    \/ UpdateByIdWrite(p)
    \/ \E id \in CIds : FindByIdCall(p, id)
    \/ FindByIdReturn(p)
    \/ \E query \in CQueries \ {NoQuery} : FindOneCall(p, query)
    \/ FindOneReturn(p)
    \/ \E query \in CQueries : CountCall(p, query)
    \/ CountReturn(p)
    \/ \E query \in CQueries \ {NoQuery} : DeleteCall(p, query)
    \/ DeleteWrite(p)
    \/ \E id \in CIds : DeleteByIdCall(p, id)
    \/ DeleteByIdWrite(p)
    \/ ClearCall(p)
    \/ ClearReturn(p)
    \/ Return(p)

Spec == CInit /\ [][Next]_vars

\* ------------------------------------------------- overlapping calls
\* Two callers, each making one call on a collection whose object store
\* exists; their steps interleave at every await.
Racers == {1, 2}
RDocs ==
  {("_id" :> Str("a")) @@ ("age" :> Num(1)), ("_id" :> Str("a")) @@ ("age" :> Num(2)),
   ("_id" :> Str("b")) @@ ("age" :> Num(1))}
RQueries == {<<>>, ("_id" :> Str("a"))}
RUpdates == {("$inc" :> ("age" :> Num(1))), ("$set" :> ("age" :> Num(2)))}
RIds == {Str("a")}
RStores ==
  {<<>>,
   ("a" :> (("_id" :> Str("a")) @@ ("age" :> Num(1)))),
   ("a" :> (("_id" :> Str("a")) @@ ("age" :> Num(1))))
     @@ ("b" :> (("_id" :> Str("b")) @@ ("age" :> Num(1))))}

\* an open database with the collection's object store in it
RInit ==
  /\ store \in RStores
  /\ stores = {CollName, OtherName}
  /\ others = (OtherName :> OtherDocs)
  /\ schema = "none"
  /\ idCount = 0
  /\ calls = [p \in Racers |-> Idle]
  /\ QIdle
  /\ UIdle
  /\ FIdle
  /\ SIdle
  /\ DIdle

RNext ==
  \E p \in Racers :
    \/ \E doc \in RDocs : InsertCall(p, doc)
    \/ InsertWrite(p)
    \/ \E doc \in RDocs : InsertFastCall(p, doc)
    \/ InsertFastWrite(p)
    \/ \E query \in RQueries, update \in RUpdates : UpdateCall(p, query, update)
    \/ UpdateWrite(p)
    \/ \E query \in RQueries : DeleteCall(p, query)
    \/ DeleteWrite(p)
    \/ \E id \in RIds : DeleteByIdCall(p, id)
    \/ DeleteByIdWrite(p)

SpecRace == RInit /\ [][RNext]_vars

\* ------------------------------------------------------------ BrowserDB
\* In the database specification every object store of the database is in
\* `others`, by name; `store`, the store of the collection under test,
\* is not used.

\* the version a Storage opens the database with when it holds no connection
StorageVersion == 1

\* the characters of the collection names used, in order
Spell ==
  ("" :> <<>>) @@ ("users" :> <<"u", "s", "e", "r", "s">>)
  @@ ("posts" :> <<"p", "o", "s", "t", "s">>)
  @@ ("_tmp-2" :> <<"_", "t", "m", "p", "-", "2">>)
  @@ ("123invalid" :> <<"1", "2", "3", "i", "n", "v", "a", "l", "i", "d">>)
  @@ ("-a" :> <<"-", "a">>) @@ ("my posts" :> <<"m", "y", " ", "p", "o", "s", "t", "s">>)

\* the character classes of the name pattern
Letters ==
  {"a", "d", "e", "i", "l", "m", "n", "o", "p", "r", "s", "t", "u", "v", "y"}
Digits == {"1", "2", "3"}

\* accepts every name
AnyName(name) == TRUE

\* /^[a-zA-Z_][a-zA-Z0-9_-]*$/.test(name)
NamePattern(name) ==
  LET chars == Spell[name]
  IN /\ Len(chars) >= 1
     /\ chars[1] \in Letters \cup {"_"}
     /\ \A i \in 2..Len(chars) : chars[i] \in Letters \cup Digits \cup {"_", "-"}

\* the two tests of collection(name): a non-empty string, and the pattern
NameError(name) == name = "" \/ ~NamePattern(name)

hasCollection(name) == hasStore(name)
listCollections == stores
isConnected == connected

\* no BrowserDB call under way
DbIdle ==
  [op |-> "none", state |-> "idle", name |-> "", via |-> "", closed |-> FALSE,
   version |-> 0, registered |-> FALSE, held |-> FALSE]

\* storage.open() of the constructor's initConnection succeeds: the
\* connection is kept, the existing object stores are noted, and
\* initConnection sets connected
InitConnection ==
  /\ connectionPromise = "pending"
  /\ db' = "open"
  /\ stores' = stores \cup DOMAIN others
  /\ connected' = TRUE
  /\ connectionPromise' = "resolved"
  /\ UNCHANGED <<store, schema, idCount, calls, others, collections, idbVersion,
                 dcalls, afterClose, sync, qvars, uvars, fvars, svars>>

\* connect(): returns at once when connected, else hands out the stored
\* connection promise, and starts a connection only when there is none
ConnectCall(p) ==
  /\ dcalls[p] = DbIdle
  /\ dcalls' = [dcalls EXCEPT ![p] =
       [DbIdle EXCEPT !.op = "connect", !.state = "pending",
                      !.via = IF connected THEN "connected" ELSE "promise"]]
  /\ connectionPromise' =
       IF ~connected /\ connectionPromise = "null" THEN "pending"
       ELSE connectionPromise
  /\ afterClose' = FALSE
  /\ UNCHANGED <<cvars, connected, collections, db, idbVersion, sync,
                 qvars, uvars, fvars, svars>>

\* the promise connect() returned resolves: at once on the connected path,
\* with the stored connection promise otherwise
ConnectResolve(p) ==
  /\ dcalls[p].op = "connect" /\ dcalls[p].state = "pending"
  /\ dcalls[p].via = "connected" \/ connectionPromise = "resolved"
  /\ dcalls' = [dcalls EXCEPT ![p].state = "resolved"]
  /\ UNCHANGED <<cvars, connected, connectionPromise, collections, db, idbVersion,
                 afterClose, sync, qvars, uvars, fvars, svars>>

\* close(): nothing when not connected; else closes the storage, empties the
\* registry and clears connected
Close ==
  /\ IF connected
     THEN db' = "null" /\ collections' = {} /\ connected' = FALSE
     ELSE UNCHANGED <<db, collections, connected>>
  /\ afterClose' = TRUE
  /\ dcalls' = [p \in DOMAIN dcalls |->
       IF dcalls[p].op = "connect" /\ dcalls[p].state = "pending"
       THEN [dcalls[p] EXCEPT !.closed = TRUE] ELSE dcalls[p]]
  /\ UNCHANGED <<cvars, connectionPromise, idbVersion, sync,
                 qvars, uvars, fvars, svars>>

\* collection(name): throws on a bad name, else returns the registered
\* collection or registers a new one
CollectionCall(name) ==
  /\ sync' = [op |-> "collection", name |-> name,
              err |-> IF NameError(name) THEN "CollectionError" ELSE "none"]
  /\ collections' = IF NameError(name) THEN collections ELSE collections \cup {name}
  /\ UNCHANGED <<cvars, connected, connectionPromise, db, idbVersion, dcalls,
                 afterClose, qvars, uvars, fvars, svars>>

\* the synchronous part of Storage.deleteStore: nothing for an unknown store,
\* else the connection is closed and the database is asked for at the next
\* version, or at the Storage's own version when there is no connection
DeleteStoreCall(p, op, name, registered) ==
  /\ dcalls[p] = DbIdle
  /\ dcalls' = [dcalls EXCEPT ![p] =
       [DbIdle EXCEPT !.op = op, !.state = "pending", !.name = name,
                      !.via = IF hasStore(name) THEN "open" ELSE "return",
                      !.version = IF db = "open" THEN idbVersion + 1 ELSE StorageVersion,
                      !.registered = registered,
                      !.held = name \in DOMAIN others /\ others[name] # <<>>]]
  /\ db' = IF hasStore(name) THEN "null" ELSE db
  /\ UNCHANGED <<cvars, connected, connectionPromise, collections, idbVersion,
                 afterClose, sync, qvars, uvars, fvars, svars>>

\* dropCollection(name): through the registered collection's drop() when
\* there is one, else straight to the storage
DropCollectionCall(p, name) ==
  LET collection == name \in collections
  IN /\ name \in DOMAIN Spell
     /\ DeleteStoreCall(p, "dropCollection", name, collection)

\* drop() of a collection obtained from collection(name)
DropCall(p, name) ==
  /\ name \in collections
  /\ DeleteStoreCall(p, "drop", name, FALSE)

\* the object stores after the upgrade transaction of deleteStore
deleteObjectStore(name) == [n \in DOMAIN others \ {name} |-> others[n]]

\* the request of deleteStore completes: a version below the database's is
\* refused; a higher one runs the upgrade that deletes the object store; on
\* success the connection is kept and the name leaves Storage.stores; then
\* dropCollection takes the collection off the registry
DeleteStoreDone(p) ==
  LET c == dcalls[p]
      refused == c.via = "open" /\ c.version < idbVersion
      opened == c.via = "open" /\ ~refused
  IN /\ c.op \in {"dropCollection", "drop"} /\ c.state = "pending"
     /\ dcalls' = [dcalls EXCEPT ![p].state = IF refused THEN "rejected" ELSE "resolved"]
     /\ others' = IF opened /\ c.version > idbVersion
                  THEN deleteObjectStore(c.name) ELSE others
     /\ idbVersion' = IF opened THEN c.version ELSE idbVersion
     /\ db' = IF opened THEN "open" ELSE db
     /\ stores' = IF opened THEN stores \ {c.name} ELSE stores
     /\ collections' = IF ~refused /\ c.registered
                       THEN collections \ {c.name} ELSE collections
     /\ UNCHANGED <<store, schema, idCount, calls, connected, connectionPromise,
                    afterClose, sync, qvars, uvars, fvars, svars>>

\* the caller has its outcome and is free for its next call
DbReturn(p) ==
  /\ dcalls[p].state \in {"resolved", "rejected"}
  /\ dcalls' = [dcalls EXCEPT ![p] = DbIdle]
  /\ UNCHANGED <<cvars, connected, connectionPromise, collections, db, idbVersion,
                 afterClose, sync, qvars, uvars, fvars, svars>>

DbCallers == {1}
DbNames == {"", "users", "posts", "_tmp-2", "123invalid", "-a", "my posts"}
DropNames == {"users", "posts"}
UserDocs == ("a" :> (("_id" :> Str("a")) @@ ("age" :> Num(2))))

\* new BrowserDB(name) on a database that holds two collections with
\* documents: the constructor has started initConnection
DbInit ==
  /\ store = <<>> /\ stores = {} /\ schema = "none" /\ idCount = 0 /\ calls = <<>>
  /\ others = (CollName :> UserDocs) @@ (OtherName :> OtherDocs)
  /\ idbVersion \in {1, 2}
  /\ connected = FALSE
  /\ connectionPromise = "pending"
  /\ collections = {}
  /\ db = "null"
  /\ dcalls = [p \in DbCallers |-> DbIdle]
  /\ afterClose = FALSE
  /\ sync = [op |-> "none", name |-> "", err |-> "none"]
  /\ QIdle
  /\ UIdle
  /\ FIdle
  /\ SIdle

DbNext ==
  \/ InitConnection
  \/ Close
  \/ \E name \in DbNames : CollectionCall(name)
  \/ \E p \in DbCallers :
       \/ ConnectCall(p)
       \/ ConnectResolve(p)
       \/ \E name \in DropNames : DropCollectionCall(p, name)
       \/ \E name \in DropNames : DropCall(p, name)
       \/ DeleteStoreDone(p)
       \/ DbReturn(p)

SpecDb == DbInit /\ [][DbNext]_vars

\* ------------------------------------------------------------ sort run
\* the documents a sort can be handed: find passes the matching documents in
\* scan order, which is ascending key order; a document may lack a sort field
SortIds == <<"a", "b", "c">>
SortDocsOf(id) ==
  {("_id" :> Str(id)) @@ f @@ g :
     f \in {<<>>} \cup {("age" :> Num(n)) : n \in 1..MaxNum},
     g \in {("name" :> Str(t)) : t \in {"x", "y"}}}
SortDocLists ==
  UNION {{[i \in 1..n |-> h[i]] : h \in [1..n -> UNION {SortDocsOf(SortIds[k]) : k \in 1..3}]}
           : n \in 2..3}
ScanOrdered(docs) ==
  \A i \in 1..(Len(docs) - 1) : StrLess(docs[i]["_id"].str, docs[i + 1]["_id"].str)
SortOrders == {Num(1), Num(-1), Str("asc"), Str("desc")}
SortSpecs ==
  {<<<<k, o>>>> : k \in {"age", "name"}, o \in SortOrders}
  \cup {<<<<"name", o1>>, <<"age", o2>>>> : o1 \in {Num(1), Str("desc")}, o2 \in {Num(-1), Str("asc")}}
  \cup {<<<<"age", o1>>, <<"name", o2>>>> : o1 \in {Num(1), Num(-1)}, o2 \in {Num(1), Num(-1)}}

\* a list of documents and a sort specification are chosen
SInit ==
  /\ sDocs \in {d \in SortDocLists : ScanOrdered(d)}
  /\ sSort \in SortSpecs
  /\ sOut = [state |-> "pending"]
  /\ QIdle
  /\ UIdle
  /\ CIdle
  /\ FIdle
  /\ DIdle

\* sortDocuments(docs, sort) returns
Sort ==
  /\ sOut.state = "pending"
  /\ sOut' = [state |-> "returned", docs |-> sortDocuments(sDocs, sSort)]
  /\ UNCHANGED <<sDocs, sSort, qvars, uvars, cvars, fvars, dvars>>

SNext == Sort

SpecSort == SInit /\ [][SNext]_vars

\* ------------------------------------------------------------ claims
\* structural equality as the specification states it: the same value, the
\* identity of arrays and objects left aside
StructEq(a, b) == deepClone(a) = deepClone(b)

\* the node carries $and, $or or $not
HasCombinator(query) == \E k \in {"$and", "$or", "$not"} : k \in DOMAIN query

\* every combinator present in the node is satisfied
CombinatorsSatisfied(doc, query) ==
  /\ "$and" \in DOMAIN query =>
       \A i \in 1..Len(query["$and"]) : matches(doc, query["$and"][i])
  /\ "$or" \in DOMAIN query =>
       \E i \in 1..Len(query["$or"]) : matches(doc, query["$or"][i])
  /\ "$not" \in DOMAIN query => ~matches(doc, query["$not"])

\* C1: a node that carries a combinator beside field predicates or other
\* combinators matches iff all its field predicates match and all its
\* combinators are satisfied
C1_MixedNodeIsConjunction ==
  (qOut \in {"match", "nomatch"} /\ HasCombinator(qQuery) /\ Cardinality(DOMAIN qQuery) >= 2)
    => ((qOut = "match") <=> (FieldsMatch(qDoc, qQuery) /\ CombinatorsSatisfied(qDoc, qQuery)))

\* a plain value of a field predicate: a primitive or a sequence
IsPlainValue(v) == IsNum(v) \/ IsStr(v) \/ IsBool(v) \/ IsNull(v) \/ IsArr(v)

\* the query is {f: v} with v a plain value
IsLiteralQuery(query) ==
  /\ Cardinality(DOMAIN query) = 1
  /\ \A f \in DOMAIN query : IF StartsWithDollar(f) THEN FALSE ELSE IsPlainValue(query[f])

\* C2: matches(D, {f: v}) for a plain value v, a primitive or a sequence, is
\* true iff D's value at f is structurally equal to v
C2_PlainValueIsStructuralEquality ==
  (qOut \in {"match", "nomatch"} /\ IsLiteralQuery(qQuery))
    => \A f \in DOMAIN qQuery :
         (qOut = "match") <=> StructEq(getNestedValue(qDoc, f), qQuery[f])

\* C3: applyUpdate leaves the document it is given structurally unchanged
C3_InputUnchanged ==
  \A i \in 1..Len(uOut) : uOut[i].input = uOut[i].given

\* C6: {$pull: {f: x}} leaves in a sequence-valued field exactly the elements
\* that are not structurally equal to x, in their order
C6_PullRemovesStructurallyEqual ==
  (Len(uOut) >= 1 /\ DOMAIN uUpdate = {"$pull"})
    => \A f \in DOMAIN uUpdate["$pull"] :
         (f \in DOMAIN uDoc /\ IsArr(uDoc[f]))
           => uOut[1].result[f].arr =
                SelectSeq(uDoc[f].arr, LAMBDA e : ~StructEq(e, uUpdate["$pull"][f]))

\* some element of the sequence is structurally equal to x
HasStructEq(elems, x) == \E i \in 1..Len(elems) : StructEq(elems[i], x)

\* C7: {$addToSet: {f: x}} appends x only when no element structurally equal
\* to it is present, and applying it twice yields what applying it once does
C7_AddToSetIdempotent ==
  DOMAIN uUpdate = {"$addToSet"}
    => \A f \in DOMAIN uUpdate["$addToSet"] :
         /\ \A i \in 1..Len(uOut) :
              (f \in DOMAIN uOut[i].given /\ IsArr(uOut[i].given[f]))
                => StructEq(uOut[i].result[f],
                            IF HasStructEq(uOut[i].given[f].arr, uUpdate["$addToSet"][f])
                            THEN uOut[i].given[f]
                            ELSE Arr(Append(uOut[i].given[f].arr, uUpdate["$addToSet"][f]), 0))
         /\ Len(uOut) = 2 => StructEq(Field(uOut[2].result, f), Field(uOut[1].result, f))

\* a call of one of the update methods is about to run its write step
Updating(p) ==
  /\ calls[p].op \in {"update", "updateOne", "updateById"}
  /\ calls[p].pc \in {"scan", "lookup"}

\* C4: the identifier of a document is immutable: a write step of update,
\* updateOne or updateById, whatever the update description, leaves the set
\* of stored identifiers as it was, and every document that was stored is
\* still stored under its identifier, with that identifier in its _id.
C4_IdentifiersImmutable ==
  [][\A p \in Callers :
       Updating(p) =>
         /\ DOMAIN store' = DOMAIN store
         /\ \A k \in DOMAIN store :
              k \in DOMAIN store' /\ Field(store'[k], "_id") = Str(k)]_vars

\* C5: in a collection configured with a validator, every stored document
\* passes the validator, in every reachable state: after the writes of
\* insert, insertFast and insertMany and after those of update, updateOne
\* and updateById.
C5_StoredDocumentsValid ==
  schema = "zod" => \A k \in DOMAIN store : SchemaAccepts(store[k])

\* insert is at its duplicate check with a document whose identifier is in
\* the collection (validation, which comes first, has let the document pass)
InsertOfPresentId(p) ==
  /\ calls[p].op = "insert"
  /\ calls[p].pc = "lookup"
  /\ CollName \in stores
  /\ KeyOf(calls[p].local.newDoc) \in DOMAIN store

\* C8: insert of a document whose identifier is already in the collection
\* raises DuplicateKeyError and leaves the store unchanged: the same number
\* of documents, and the document stored under that identifier keeps all its
\* field values.
C8_DuplicateInsertRejected ==
  [][\A p \in Callers :
       InsertOfPresentId(p) =>
         /\ calls'[p].pc = "done"
         /\ calls'[p].err = "DuplicateKeyError"
         /\ Cardinality(DOMAIN store') = Cardinality(DOMAIN store)
         /\ store' = store]_vars

\* an insert of a document of age 2 under identifier "a" was refused as a
\* duplicate while "a" holds a document of age 1
C8_Witness ==
  \E p \in Callers :
    /\ calls[p].op = "insert" /\ calls[p].pc = "done"
    /\ calls[p].err = "DuplicateKeyError"
    /\ calls[p].args.docs[1] = ("_id" :> Str("a")) @@ ("age" :> Num(2))
    /\ "a" \in DOMAIN store
    /\ Field(store["a"], "age") = Num(1)

\* the step is a call of insert, insertFast or insertMany by p with a
\* document, at any position, that the validator rejects
InsertOfRejected(p) ==
  /\ schema = "zod"
  /\ calls[p].pc = "idle"
  /\ calls'[p].op \in {"insert", "insertFast", "insertMany"}
  /\ \E i \in 1..Len(calls'[p].args.docs) : ~SchemaAccepts(calls'[p].args.docs[i])

\* C9: a validation failure is never partially applied: a call of insert or
\* insertFast with a document the validator rejects, and a call of
\* insertMany with a batch that holds a rejected document at any position,
\* ends with ValidationError at once, so no document of the call is
\* persisted and the store is unchanged.
C9_ValidationFailureNotApplied ==
  [][\A p \in Callers :
       InsertOfRejected(p) =>
         /\ calls'[p].pc = "done"
         /\ calls'[p].err = "ValidationError"
         /\ store' = store
         /\ stores' = stores]_vars

\* insertMany was refused for its second document, the first being valid,
\* and neither is in the store
C9_Witness ==
  \E p \in Callers :
    /\ schema = "zod"
    /\ calls[p].op = "insertMany" /\ calls[p].pc = "done"
    /\ calls[p].err = "ValidationError"
    /\ Len(calls[p].args.docs) = 2
    /\ SchemaAccepts(calls[p].args.docs[1])
    /\ ~SchemaAccepts(calls[p].args.docs[2])
    /\ \A i \in 1..2 :
         HasKey(calls[p].args.docs[i]) => KeyOf(calls[p].args.docs[i]) \notin DOMAIN store

\* the first n elements of seq
Take(seq, n) == SubSeq(seq, 1, IF n < Len(seq) THEN n ELSE Len(seq))

\* seq without its first n elements
Drop(seq, n) == SubSeq(seq, n + 1, Len(seq))

\* the stages in the order filter, sort, skip, limit, each option acting
\* when it is supplied
Pipeline(allDocs, query, options) ==
  LET matching == filter(allDocs, query)
      sorted == IF "sort" \in DOMAIN options
                THEN sortDocuments(matching, options["sort"]) ELSE matching
      dropped == IF "skip" \in DOMAIN options
                 THEN Drop(sorted, options["skip"].num) ELSE sorted
  IN IF "limit" \in DOMAIN options THEN Take(dropped, options["limit"].num) ELSE dropped

\* C10: find applies filter, sort, skip, limit in that order: for every
\* query, sort specification, skip >= 0 and limit >= 0 supplied in the
\* options, find returns exactly the first `limit` elements of the sorted
\* list of matching documents after its first `skip` elements are dropped.
C10_FindIsFilterSortSkipLimit ==
  \A p \in Callers :
    (calls[p].op = "find" /\ calls[p].pc = "done") =>
      LET expected == Pipeline(getAll, calls[p].args.query, calls[p].args.options) IN
      calls[p].value = [i \in 1..Len(expected) |-> CloneDoc(expected[i])]

\* the node is {op: [A, B]} and nothing else
IsPair(query, op) == DOMAIN query = {op} /\ Len(query[op]) = 2

\* C11: the combinators are compositional: matches(D, {$and: [A, B]}) is
\* matches(D, A) and matches(D, B), matches(D, {$or: [A, B]}) is matches(D, A)
\* or matches(D, B), and matches(D, {$not: A}) is the negation of
\* matches(D, A), also when A and B are themselves composed trees.
C11_CombinatorsCompose ==
  qOut \in {"match", "nomatch"} =>
    /\ IsPair(qQuery, "$and") =>
         ((qOut = "match") <=>
            (matches(qDoc, qQuery["$and"][1]) /\ matches(qDoc, qQuery["$and"][2])))
    /\ IsPair(qQuery, "$or") =>
         ((qOut = "match") <=>
            (matches(qDoc, qQuery["$or"][1]) \/ matches(qDoc, qQuery["$or"][2])))
    /\ DOMAIN qQuery = {"$not"} =>
         ((qOut = "match") <=> ~matches(qDoc, qQuery["$not"]))

\* {$or: [{$not: A}, {$and: [A, B]}]} matched a document through its second
\* branch, and {$not: {$and: [A, B]}} matched one
C11_Witness ==
  \/ /\ qOut = "match"
     /\ IsPair(qQuery, "$or")
     /\ DOMAIN qQuery["$or"][1] = {"$not"}
     /\ IsPair(qQuery["$or"][2], "$and")
     /\ matches(qDoc, qQuery["$or"][1]["$not"])
  \/ /\ qOut = "match"
     /\ DOMAIN qQuery = {"$not"}
     /\ IsPair(qQuery["$not"], "$and")

\* the query is {f: {op: S}} for one field f and a non-empty sequence S
IsMembership(query, op) ==
  /\ Cardinality(DOMAIN query) = 1
  /\ \A f \in DOMAIN query :
       /\ ~StartsWithDollar(f)
       /\ IsObj(query[f])
       /\ Keys(query[f]) = {op}
       /\ IsArr(GetProp(query[f], op))
       /\ Len(GetProp(query[f], op).arr) > 0

\* the query with op in the place of the operator of its predicate
WithOperator(query, op) ==
  [f \in DOMAIN query |-> OpCond(op, GetProp(query[f], CHOOSE o \in Keys(query[f]) : TRUE))]

\* C12: for every field and every non-empty operand sequence S, {field: {$in:
\* S}} and {field: {$nin: S}} partition the documents: every document, also
\* one where the field is absent or null, matches exactly one of the two.
C12_InNinPartition ==
  qOut \in {"match", "nomatch"} =>
    /\ IsMembership(qQuery, "$in") =>
         ((qOut = "match") <=> ~matches(qDoc, WithOperator(qQuery, "$nin")))
    /\ IsMembership(qQuery, "$nin") =>
         ((qOut = "match") <=> ~matches(qDoc, WithOperator(qQuery, "$in")))

\* a document without the field matched $nin, and a document whose field is
\* null matched $in of a sequence that holds null
C12_Witness ==
  \/ /\ qOut = "match"
     /\ IsMembership(qQuery, "$nin")
     /\ DOMAIN qQuery = {"age"}
     /\ "age" \notin DOMAIN qDoc
  \/ /\ qOut = "match"
     /\ IsMembership(qQuery, "$in")
     /\ DOMAIN qQuery = {"age"}
     /\ Field(qDoc, "age") = Null

\* the positions of the documents the query selects; with no query, all
Selected(docs, query) ==
  {i \in 1..Len(docs) : query = NoQuery \/ matches(docs[i], query)}

\* the j-th smallest position of a set of positions
NthOf(positions, j) ==
  CHOOSE i \in positions : Cardinality({k \in positions : k < i}) = j - 1

\* C13: filter is order-preserving: filter(docs, Q) is the subsequence of
\* docs made of exactly the documents D with matches(D, Q), in their original
\* relative order; for an absent or empty query it is every document, in the
\* original order.
C13_FilterIsOrderedSelection ==
  fOut.state = "returned" =>
    LET keep == Selected(fDocs, fQuery) IN
    /\ Len(fOut.docs) = Cardinality(keep)
    /\ \A j \in 1..Len(fOut.docs) : fOut.docs[j] = fDocs[NthOf(keep, j)]
    /\ (fQuery = NoQuery \/ DOMAIN fQuery = {}) => fOut.docs = fDocs

\* of three documents filter returned the first and the third, in that order
C13_Witness ==
  /\ fOut.state = "returned"
  /\ Len(fDocs) = 3
  /\ Selected(fDocs, fQuery) = {1, 3}
  /\ fDocs[1] # fDocs[3]
  /\ fOut.docs = <<fDocs[1], fDocs[3]>>

\* the order the claim gives for the operators
OperatorOrder == <<"$set", "$unset", "$inc", "$push", "$pull", "$addToSet">>

RECURSIVE ApplyEach(_, _, _)
\* applyUpdate called once per operator of `ops` that the description has,
\* one call after another, each on the document the one before returned
ApplyEach(doc, update, ops) ==
  IF ops = <<>> THEN doc
  ELSE ApplyEach(IF Head(ops) \in DOMAIN update
                 THEN applyUpdate(doc, (Head(ops) :> update[Head(ops)]))
                 ELSE doc,
                 update, Tail(ops))

RECURSIVE KeyOrders(_)
\* the orders in which a set of keys can be written
KeyOrders(keys) ==
  IF keys = {} THEN {<<>>}
  ELSE UNION {{<<k>> \o rest : rest \in KeyOrders(keys \ {k})} : k \in keys}

RECURSIVE Written(_, _)
\* the description with the keys of `update` written in the given order
Written(update, order) ==
  IF order = <<>> THEN <<>>
  ELSE (Head(order) :> update[Head(order)]) @@ Written(update, Tail(order))

\* C14: operator updates are applied in the fixed order $set, $unset, $inc,
\* $push, $pull, $addToSet: applyUpdate(D, U) is the same for every order in
\* which the operator keys of U are written, and is the result of applying
\* the operators U has one after another in that order.
C14_OperatorsInFixedOrder ==
  (Len(uOut) >= 1 /\ hasOperators(uUpdate)) =>
    /\ \A order \in KeyOrders(DOMAIN uUpdate) :
         applyUpdate(uDoc, Written(uUpdate, order)) = uOut[1].result
    /\ CloneDoc(uOut[1].result) = CloneDoc(ApplyEach(uDoc, uUpdate, OperatorOrder))

\* an update with $set and $unset of the same field was applied and the
\* field is gone; with $unset taken first the field would be there
C14_Witness ==
  /\ Len(uOut) >= 1
  /\ {"$set", "$unset"} \subseteq DOMAIN uUpdate
  /\ "age" \in DOMAIN uUpdate["$set"] \cap DOMAIN uUpdate["$unset"]
  /\ "age" \notin DOMAIN uOut[1].result
  /\ "age" \in DOMAIN ApplyEach(uDoc, uUpdate, <<"$unset", "$set">>)

\* the keys of the description that begin with '$'
OperatorKeys(update) == {key \in DOMAIN update : StartsWithDollar(key)}

\* the description without the keys that do not begin with '$'
OperatorsOf(update) == [key \in OperatorKeys(update) |-> update[key]]

\* C15: mode selection: when no key of the description begins with '$', the
\* result is the document with every field of the description overwritten or
\* added and every other field unchanged; when at least one key begins with
\* '$', the description is treated as an operator update: its operators are
\* applied and its other keys are not merged into the document.
C15_ModeSelection ==
  Len(uOut) >= 1 =>
    LET result == uOut[1].result IN
    IF OperatorKeys(uUpdate) = {}
    THEN /\ DOMAIN result = DOMAIN uDoc \cup DOMAIN uUpdate
         /\ \A k \in DOMAIN result :
              result[k] = IF k \in DOMAIN uUpdate THEN uUpdate[k] ELSE uDoc[k]
    ELSE /\ \A k \in DOMAIN result : ~StartsWithDollar(k)
         /\ result = applyUpdate(uDoc, OperatorsOf(uUpdate))
         /\ \A k \in DOMAIN uUpdate \ OperatorKeys(uUpdate) :
              (\A op \in OperatorKeys(uUpdate) : k \notin DOMAIN uUpdate[op]) =>
                /\ k \in DOMAIN result <=> k \in DOMAIN uDoc
                /\ k \in DOMAIN uDoc => result[k] = uDoc[k]

\* a description with $set of age and a plain age was applied as an operator
\* update, and one with plain fields only overwrote a field and added one
C15_Witness ==
  /\ Len(uOut) >= 1
  /\ \/ /\ DOMAIN uUpdate = {"$set", "age"}
        /\ uUpdate["age"] # uUpdate["$set"]["age"]
        /\ uOut[1].result["age"] = uUpdate["$set"]["age"]
     \/ /\ DOMAIN uUpdate = {"age", "tags"}
        /\ "age" \in DOMAIN uDoc /\ "tags" \notin DOMAIN uDoc
        /\ uDoc["age"] # uUpdate["age"]
        /\ uOut[1].result["age"] = uUpdate["age"]

\* insert is at its duplicate check with a document whose identifier is not
\* in the collection
InsertOfNewId(p) ==
  /\ calls[p].op = "insert"
  /\ calls[p].pc = "lookup"
  /\ KeyOf(calls[p].local.newDoc) \notin DOMAIN store

\* the document D with id as its _id, as a store read hands it out
WithId(D, id) ==
  [k \in DOMAIN D \cup {"_id"} |-> IF k = "_id" THEN id ELSE deepClone(D[k])]

\* C16: round trip: for every document D whose identifier is not yet in the
\* collection, insert(D) returns a document R with a non-empty string _id,
\* D's own when D supplies one and a generated one otherwise, and
\* findById(R._id) right after returns a document structurally equal to D
\* with that _id.
C16_InsertFindByIdRoundTrip ==
  [][\A p \in Callers :
       InsertOfNewId(p) =>
         LET D == calls[p].args.docs[1]
             R == calls'[p].value
             id == calls[p].local.newDoc["_id"]
         IN /\ calls'[p].pc = "done"
            /\ calls'[p].err = "none"
            /\ HasKey(R) /\ KeyOf(R) # "" /\ R["_id"] = id
            /\ "_id" \in DOMAIN D => R["_id"] = D["_id"]
            /\ "_id" \notin DOMAIN D => \E n \in 1..Len(GenIds) : KeyOf(R) = GenIds[n]
            /\ (CloneOrNull(getById(id)))' = WithId(D, id)]_vars

\* an insert of a document without _id has returned, and a lookup of the
\* identifier it returned finds the document with its age
C16_Witness ==
  \E p \in Callers :
    /\ calls[p].op = "insert" /\ calls[p].pc = "done" /\ calls[p].err = "none"
    /\ DOMAIN calls[p].args.docs[1] = {"age"}
    /\ CloneOrNull(getById(calls[p].value["_id"])) = WithId(calls[p].args.docs[1], Str("g1"))

\* C17: when nothing overlaps it, delete(Q) returns the number of documents
\* that matched Q before the call, and afterwards the collection holds
\* exactly the documents that did not match Q, each unchanged, so count(Q)
\* is 0.
C17_DeleteRemovesMatches ==
  \A p \in Callers :
    (calls[p].op = "delete" /\ calls[p].pc = "done") =>
      LET before == calls[p].local.allDocs
          Q == calls[p].args.query
          gone == Selected(before, Q)
          kept == (1..Len(before)) \ gone
      IN /\ calls[p].err = "none"
         /\ calls[p].value = Num(Cardinality(gone))
         /\ DOMAIN store = {KeyOf(before[i]) : i \in kept}
         /\ \A i \in kept : store[KeyOf(before[i])] = before[i]
         /\ countResult(getAll, Q) = Num(0)

\* a delete has removed one document of two and left the other
C17_Witness ==
  \E p \in Callers :
    /\ calls[p].op = "delete" /\ calls[p].pc = "done"
    /\ Len(calls[p].local.allDocs) = 2
    /\ calls[p].value = Num(1)
    /\ Cardinality(DOMAIN store) = 1

\* C18: when nothing overlaps it, update(Q, U) returns the number of
\* documents matching Q (all of them for an empty query), replaces every
\* matching document by applyUpdate(document, U), and leaves every document
\* that does not match Q unchanged.
C18_UpdateReplacesMatches ==
  \A p \in Callers :
    (calls[p].op = "update" /\ calls[p].pc = "done") =>
      LET before == calls[p].local.allDocs
          Q == calls[p].args.query
          U == calls[p].args.update
          hit == Selected(before, Q)
      IN /\ calls[p].err = "none"
         /\ calls[p].value = Num(Cardinality(hit))
         /\ DOMAIN store = {KeyOf(before[i]) : i \in 1..Len(before)}
         /\ \A i \in 1..Len(before) :
              store[KeyOf(before[i])] =
                IF i \in hit THEN CloneDoc(applyUpdate(before[i], U)) ELSE before[i]

\* a point call is back from its lookup of an identifier that is not in the
\* collection
LookupOfAbsentId(p) ==
  /\ calls[p].op \in {"findById", "updateById", "deleteById"}
  /\ calls[p].pc = "lookup"
  /\ calls[p].args.id.str \notin DOMAIN store

\* findOne is back from its scan and no document matches its query
FindOneOfNoMatch(p) ==
  /\ calls[p].op = "findOne"
  /\ calls[p].pc = "scan"
  /\ Selected(getAll, calls[p].args.query) = {}

\* C19: not found is a value, not an error: for an identifier that is not in
\* the collection, findById, updateById and deleteById return null, raise
\* nothing and leave the store unchanged (updateById does not insert the
\* document); findOne returns null when no document matches.
C19_NotFoundIsNull ==
  [][\A p \in Callers :
       (LookupOfAbsentId(p) \/ FindOneOfNoMatch(p)) =>
         /\ calls'[p].pc = "done"
         /\ calls'[p].err = "none"
         /\ calls'[p].value = Null
         /\ store' = store
         /\ stores' = stores]_vars

\* updateById of an identifier that is not among the stored ones returned
\* null
C19_Witness ==
  \E p \in Callers :
    /\ calls[p].op = "updateById" /\ calls[p].pc = "done"
    /\ calls[p].err = "none" /\ calls[p].value = Null
    /\ DOMAIN store # {}
    /\ calls[p].args.id.str \notin DOMAIN store

\* a call of clear by p is at its return
ClearAtReturn(p) == calls[p].op = "clear" /\ calls[p].pc = "write"

\* C20: clear() removes all documents and keeps the collection's existence:
\* after clear() resolves count() is 0, hasCollection(name) has the value it
\* had before the call, and the documents of every other collection are
\* unchanged.
C20_ClearKeepsCollection ==
  [][\A p \in Callers :
       /\ (calls[p].pc = "idle" /\ calls'[p].op = "clear") =>
            /\ hasStore(CollName)' = hasStore(CollName)
            /\ others' = others
       /\ ClearAtReturn(p) =>
            /\ calls'[p].pc = "done" /\ calls'[p].err = "none"
            /\ countResult(getAll, NoQuery)' = Num(0)
            /\ hasStore(CollName)' = hasStore(CollName)
            /\ others' = others]_vars

\* clear has resolved on a collection that exists, beside another
\* collection that holds a document
C20_Witness ==
  \E p \in Callers :
    /\ calls[p].op = "clear" /\ calls[p].pc = "done"
    /\ hasStore(CollName)
    /\ DOMAIN store = {}
    /\ DOMAIN others[OtherName] # {}

\* a drop call of caller p that has resolved, made on a collection that held
\* documents
DroppedByCall(p) ==
  /\ dcalls[p].op \in {"dropCollection", "drop"}
  /\ dcalls[p].state = "resolved"
  /\ dcalls[p].held

\* the step on which a drop call of caller p resolves
DropResolves(p) ==
  /\ dcalls[p].op \in {"dropCollection", "drop"}
  /\ dcalls[p].state = "pending"
  /\ dcalls[p].held
  /\ dcalls'[p].state = "resolved"

\* C21: dropping a collection removes it from the store: once
\* dropCollection(name), or the collection's drop(), has resolved on a
\* collection that holds documents, hasCollection(name) is false and
\* listCollections() does not contain name; and the step that resolves it
\* leaves every other collection in existence with its documents.
C21_DropRemovesCollection ==
  /\ [](\A p \in DbCallers :
          DroppedByCall(p) =>
            ~hasCollection(dcalls[p].name) /\ dcalls[p].name \notin listCollections)
  /\ [][\A p \in DbCallers :
          DropResolves(p) =>
            \A n \in DOMAIN others \ {dcalls[p].name} :
              /\ n \in DOMAIN others' /\ others'[n] = others[n]
              /\ hasCollection(n) => hasCollection(n)']_vars

\* the name rule in the words of the contract: a first character that is a
\* letter or an underscore, then only letters, digits, underscores, hyphens
WellFormedName(name) ==
  LET chars == Spell[name]
  IN /\ chars # <<>>
     /\ Head(chars) \in Letters \cup {"_"}
     /\ {Tail(chars)[i] : i \in 1..(Len(chars) - 1)}
          \subseteq Letters \cup Digits \cup {"_", "-"}

\* C22: collection(name) raises a collection-name error exactly when name is
\* empty or is not a letter or underscore followed only by letters, digits,
\* underscores or hyphens; the call that raises leaves the registry, the
\* Storage and the database as they were.
C22_NameValidation ==
  [][sync' # sync =>
       /\ sync'.err = "CollectionError" <=> (sync'.name = "" \/ ~WellFormedName(sync'.name))
       /\ sync'.err = "CollectionError" =>
            UNCHANGED <<collections, store, stores, others, db, idbVersion,
                        connected, connectionPromise>>]_vars

\* a malformed name was refused while the registry held a collection
C22_Witness ==
  /\ sync.op = "collection" /\ sync.name = "123invalid" /\ sync.err = "CollectionError"
  /\ collections = {"users"}

\* C23: connect() connects the database: on the step that resolves a promise
\* returned by connect(), with no close() called since that connect(),
\* isConnected() is true; and a connect() call made while connected leaves
\* it true.
C23_ConnectConnects ==
  [][\A p \in DbCallers :
       /\ (/\ dcalls[p].op = "connect" /\ dcalls[p].state = "pending"
           /\ ~dcalls[p].closed
           /\ dcalls'[p].state = "resolved") => isConnected'
       /\ (/\ dcalls[p] = DbIdle /\ dcalls'[p].op = "connect"
           /\ isConnected) => isConnected']_vars

\* C24: close() closes the connection: from the return of close() until
\* the next call of connect(), isConnected() is false, also when close() was
\* called while the constructor's connection was still under way.
C24_CloseCloses == afterClose => ~isConnected

\* the positions of the sort entries on whose field two documents differ
DifferingEntries(a, b, sortEntries) ==
  {i \in 1..Len(sortEntries) : Field(a, sortEntries[i][1]) # Field(b, sortEntries[i][1])}

\* two values of one kind that an order is defined on
Ordered(v, w) == (IsNum(v) /\ IsNum(w)) \/ (IsStr(v) /\ IsStr(w))

\* v comes before w in ascending order
Below(v, w) == IF IsNum(v) THEN v.num < w.num ELSE StrLess(v.str, w.str)

\* the place of a document in the list that was passed
ScanPlace(doc) == CHOOSE n \in 1..Len(sDocs) : sDocs[n] = doc

\* C25: sorting is a stable multi-key sort: the result is a permutation of
\* the documents passed; two documents that differ on a sort field stand in
\* the order of their values under the first such field (ascending for 1 or
\* 'asc', descending for -1 or 'desc') whenever those two values are both
\* numbers or both strings; two documents that tie on all sort fields keep
\* their scan order.
C25_StableMultiKeySort ==
  sOut.state = "returned" =>
    LET out == sOut.docs IN
    /\ Len(out) = Len(sDocs)
    /\ {out[i] : i \in 1..Len(out)} = {sDocs[i] : i \in 1..Len(sDocs)}
    /\ \A i \in 1..Len(out) : \A j \in (i + 1)..Len(out) :
         LET differing == DifferingEntries(out[i], out[j], sSort) IN
         IF differing = {} THEN ScanPlace(out[i]) < ScanPlace(out[j])
         ELSE LET first == CHOOSE k \in differing : \A l \in differing : k <= l
                  v == Field(out[i], sSort[first][1])
                  w == Field(out[j], sSort[first][1])
              IN Ordered(v, w) =>
                   IF sSort[first][2] \in {Num(1), Str("asc")}
                   THEN Below(v, w) ELSE Below(w, v)

\* the operator, the stored mapping and the operand mapping of the run
EqOp == CHOOSE op \in DOMAIN qQuery["meta"].obj : TRUE
EqLeft == IF EqOp = "$contains" THEN qDoc["meta"].arr[1].obj ELSE qDoc["meta"].obj
EqRight ==
  IF EqOp \in {"$in", "$nin"} THEN qQuery["meta"].obj[EqOp].arr[1].obj
  ELSE qQuery["meta"].obj[EqOp].obj

\* the same key set, and structurally equal values under every key
SameMapping(f, g) ==
  DOMAIN f = DOMAIN g /\ \A k \in DOMAIN f : StructEq(f[k], g[k])

\* C26: two mappings compared by $eq, $ne, $in, $nin or $contains are equal
\* exactly when they have the same key set and structurally equal values
\* under every key, and the answer is the same with the two mappings
\* exchanged, also when a mapping holds undefined under a key.
C26_MappingEqualitySymmetric ==
  qOut # "pending" =>
    /\ (qOut = "match") <=>
         (IF EqOp \in {"$ne", "$nin"} THEN ~SameMapping(EqLeft, EqRight)
          ELSE SameMapping(EqLeft, EqRight))
    /\ (qOut = "match") <=> matches(EDoc(EqOp, EqRight), EQuery(EqOp, EqLeft))

\* the documents of a call's snapshot that match its query
FoundOf(c) == filter(c.local.allDocs, c.args.query)

\* caller p is an update about to write, and this is the document it writes
AboutToWrite(p) ==
  calls[p].op = "update" /\ calls[p].pc = "scan" /\ FoundOf(calls[p]) # <<>>
NextWritten(p) == FoundOf(calls[p])[calls[p].local.i]

\* the update call c has already written the document d of its own snapshot
HasWritten(c, d) ==
  /\ c.op = "update"
  /\ \E j \in 1..Len(FoundOf(c)) :
       FoundOf(c)[j] = d /\ (c.pc = "done" \/ j < c.local.i)

\* a finished update call that met no error and counted every match
CountedAll(c) == c.err = "none" /\ c.value = Num(Len(FoundOf(c)))

\* C27: overlapping updates are not detected as conflicts and the later
\* write wins: when an update writes a document that another update, which
\* read the same snapshot of it, has already written, the write succeeds,
\* the stored document becomes applyUpdate(snapshot, U) of the writing call,
\* and each of the two calls, once complete, has met no error and counted
\* the document.
C27_LaterUpdateWins ==
  [][\A p, q \in Racers :
       (/\ p # q
        /\ AboutToWrite(p)
        /\ HasWritten(calls[q], NextWritten(p))
        /\ calls'[p] # calls[p]) =>
         LET d == NextWritten(p) IN
         /\ store'[KeyOf(d)] = CloneDoc(applyUpdate(d, calls[p].args.update))
         /\ calls'[p].err = "none"
         /\ calls'[p].pc = "done" => CountedAll(calls'[p])
         /\ calls[q].pc = "done" => CountedAll(calls[q])]_vars

\* two $inc updates of one snapshot have both completed, each counting the
\* document, and one increment is lost
C27_Witness ==
  /\ \A p \in Racers :
       /\ calls[p].op = "update" /\ calls[p].pc = "done"
       /\ calls[p].args.update = ("$inc" :> ("age" :> Num(1)))
       /\ calls[p].value = Num(1)
       /\ calls[p].local.allDocs = <<("_id" :> Str("a")) @@ ("age" :> Num(1))>>
  /\ store["a"]["age"] = Num(2)

\* a delete call that has completed, or is past its lookup
Deleting(c) == c.op \in {"deleteById", "delete"}

\* C28: update computes against its snapshot: when update comes to write a
\* document of its snapshot that a deleteById or delete of another caller
\* has removed in the meantime, it writes the document back: after the
\* write the document is in the collection, as applyUpdate of the snapshot
\* document, and update meets no error and counts it.
C28_UpdateWritesBackDeleted ==
  [][\A p, q \in Racers :
       (/\ p # q
        /\ AboutToWrite(p)
        /\ Deleting(calls[q])
        /\ KeyOf(NextWritten(p)) \notin DOMAIN store
        /\ calls'[p] # calls[p]) =>
         LET d == NextWritten(p) IN
         /\ KeyOf(d) \in DOMAIN store'
         /\ store'[KeyOf(d)] = CloneDoc(applyUpdate(d, calls[p].args.update))
         /\ calls'[p].err = "none"
         /\ calls'[p].pc = "done" => CountedAll(calls'[p])]_vars

\* deleteById has removed and returned the document, update has counted it,
\* and the document is in the collection after both
C28_Witness ==
  \E p, q \in Racers :
    /\ calls[p].op = "update" /\ calls[p].pc = "done" /\ calls[p].value = Num(1)
    /\ calls[p].local.allDocs = <<("_id" :> Str("a")) @@ ("age" :> Num(1))>>
    /\ calls[q].op = "deleteById" /\ calls[q].pc = "done"
    /\ calls[q].value = ("_id" :> Str("a")) @@ ("age" :> Num(1))
    /\ "a" \in DOMAIN store

\* both callers have completed an insert of the same identifier
BothInserted ==
  /\ \A p \in Racers : calls[p].op = "insert" /\ calls[p].pc = "done"
  /\ calls[1].local.newDoc["_id"] = calls[2].local.newDoc["_id"]

\* one call succeeded and the other failed, with a duplicate-key error when
\* its lookup found the document and a storage failure when it did not, and
\* the collection holds the successful call's document
OneInsertWins ==
  \E w, l \in Racers :
    /\ w # l
    /\ calls[w].err = "none"
    /\ calls[w].value = CloneDoc(calls[w].local.newDoc)
    /\ calls[l].err =
         IF calls[l].local.existing # Null THEN "DuplicateKeyError" ELSE "StorageError"
    /\ store[KeyOf(calls[w].local.newDoc)] = CloneDoc(calls[w].local.newDoc)

\* C29, as stated: for two overlapping insert calls that carry the same
\* identifier, in every interleaving exactly one call succeeds and the other
\* fails, and the collection ends with the successful call's document.
C29_AsStated == BothInserted => OneInsertWins

\* C29: for two overlapping insert calls that carry the same identifier,
\* one not in the collection when the first lookup runs, exactly one call
\* succeeds and the other fails (a duplicate-key error when its lookup ran
\* after the first write, a storage failure when both lookups ran before
\* either write); the collection ends with exactly one document under that
\* identifier, equal to the successful call's document.
C29_OneOfTwoInsertsWins ==
  (BothInserted /\ \E p \in Racers : calls[p].local.existing = Null) => OneInsertWins

\* both lookups ran before either write, and the loser met a storage failure
C29_Witness ==
  /\ BothInserted
  /\ \A p \in Racers : calls[p].local.existing = Null
  /\ \E l \in Racers : calls[l].err = "StorageError"

\* C30: insertFast never overwrites: called with an identifier already in
\* the collection, it raises no duplicate-key error; the store's add fails
\* and the call rejects with a storage failure; the existing document and
\* the number of documents are unchanged.
C30_InsertFastNeverOverwrites ==
  [][\A p \in Callers :
       (/\ calls[p].op = "insertFast" /\ calls[p].pc = "write"
        /\ KeyOf(calls[p].local.newDoc) \in DOMAIN store) =>
         /\ calls'[p].pc = "done"
         /\ calls'[p].err = "StorageError"
         /\ store' = store
         /\ Cardinality(DOMAIN store') = Cardinality(DOMAIN store)]_vars

\* an insertFast of a stored identifier with other content was refused and
\* the stored document is the old one
C30_Witness ==
  \E p \in Callers :
    /\ calls[p].op = "insertFast" /\ calls[p].pc = "done"
    /\ calls[p].err = "StorageError"
    /\ calls[p].local.newDoc = ("_id" :> Str("a")) @@ ("age" :> Num(2))
    /\ store["a"] = ("_id" :> Str("a")) @@ ("age" :> Num(1))

====
